---------------------------- MODULE Spec2Model ----------------------------
(***************************************************************************)
(* Verification model of the chart-pattern matching engine:                *)
(*   engine/dtw_core.py         DTWCalculator   (distance, envelopes, LB)  *)
(*   engine/pattern_library.py  PatternLibrary  (the Template Store)       *)
(*   engine/pattern_matcher.py  PatternMatcher  (prune, rank, vote, score) *)
(*   engine/confidence.py       ConfidenceScorer                           *)
(*   engine/backtester.py       Backtester      (the Evaluator)            *)
(*                                                                         *)
(* Number rendering.  Signals are sequences of integers (the "none"        *)
(* normalisation of integer close prices).  A DTW cost is an exact         *)
(* integer; a distance is the exact rational num/den; LB_Keogh is kept as  *)
(* its radicand (the value is the square root of it), so every comparison  *)
(* between the two is exact.  Confidence arithmetic is float arithmetic in *)
(* the code and fixed point here (the units are named where used).         *)
(***************************************************************************)
EXTENDS Integers, Sequences, FiniteSets, TLC

(***************************************************************************)
(* Bounds of the model.                                                    *)
(***************************************************************************)
MaxVal == 1
MaxSigLen == 4
MaxIds == 3
MaxShared == 2
MaxBars == 7
MaxStep == 2

(***************************************************************************)
(* Small arithmetic.                                                       *)
(***************************************************************************)
Max(a, b) == IF a >= b THEN a ELSE b
Min(a, b) == IF a <= b THEN a ELSE b
Sq(a) == a * a

\* A float that is NaN (a gap in the price data): an integer outside every
\* value a signal of the model can hold.
NaN == 0 - 1000
HasNaN(s) == \E i \in 1..Len(s) : s[i] = NaN

\* The float +inf of a cost matrix cell that no warping path reaches.
Inf == 0 - 1
AddInf(a, b) == IF a = Inf \/ b = Inf THEN Inf ELSE a + b
MinInf(a, b) == IF a = Inf THEN b ELSE IF b = Inf THEN a ELSE Min(a, b)
Min3Inf(a, b, c) == MinInf(a, MinInf(b, c))

\* Python's Optional: None, or a value.
None == <<>>
Some(v) == <<v>>

(***************************************************************************)
(* Construction-time configuration of the DTWCalculator.  The two band     *)
(* fractions are held in percent: 15 is 0.15.                              *)
(***************************************************************************)
DefaultSakoeChibaWindow == 15
DefaultAmercingPenalty == 50
DefaultConfig ==
  [variant |-> "derivative", constraint |-> "sakoe_chiba",
   sakoe_chiba_window |-> DefaultSakoeChibaWindow,
   amercing_penalty |-> DefaultAmercingPenalty]

(***************************************************************************)
(* aeon.distances, as dtw_core.py calls it.                                *)
(***************************************************************************)
\* int(fraction * n) for a fraction held in percent.
IntFrac(pct, n) == (pct * n) \div 100

\* The Sakoe-Chiba bounding matrix: cell (i, j), 0-based, of an n x m cost
\* matrix is inside the band of the given fraction.  window = None (or 1.0)
\* leaves every cell inside.
RECURSIVE InBand(_, _, _, _, _)
InBand(i, j, n, m, window) ==
  IF window = None THEN TRUE
  ELSE IF window[1] >= 100 THEN TRUE
  ELSE IF n > m THEN InBand(j, i, m, n, window)
  ELSE LET max_size == Max(n, m) + 1
           thickness == IntFrac(window[1], Min(n, m))
       IN \E step \in 0..(max_size - 1) :
            LET x_index == (step * n) \div max_size
                y_index == (step * m) \div max_size
            IN /\ y_index = j
               /\ Max(0, x_index - thickness) <= i
               /\ i < Min(n, x_index + thickness + 1)

\* One row of the cost matrix: prev is row i of the padded matrix (columns
\* 0..m), the result is row i+1.  warp is the penalty added on the two
\* off-diagonal moves (0 in dtw_distance, warp_penalty in adtw_distance).
RECURSIVE CostRow(_, _, _, _, _, _, _, _)
CostRow(x, y, i, j, prev, cur, window, warp) ==
  IF j > Len(y) THEN cur
  ELSE LET d == Sq(x[i] - y[j])
           up == prev[j + 1]
           left == cur[j]
           diag == prev[j]
           cell == IF InBand(i - 1, j - 1, Len(x), Len(y), window)
                   THEN Min3Inf(AddInf(diag, d),
                                AddInf(left, d + warp),
                                AddInf(up, d + warp))
                   ELSE Inf
       IN CostRow(x, y, i, j + 1, prev, Append(cur, cell), window, warp)

\* Rows lo..hi of the cost matrix, from the row before lo: the last of them.
\* The rows are computed one after the other; the range is halved, and the
\* first half evaluated (a row is as long as the one before it) before the
\* second is started, only to keep the evaluation shallow on a long x.
RECURSIVE CostRowsFrom(_, _, _, _, _, _, _)
CostRowsFrom(x, y, lo, hi, prev, window, warp) ==
  IF lo > hi THEN prev
  ELSE IF lo = hi THEN CostRow(x, y, lo, 1, prev, <<Inf>>, window, warp)
  ELSE LET mid == (lo + hi) \div 2
           upto_mid == CostRowsFrom(x, y, lo, mid, prev, window, warp)
       IN IF Len(upto_mid) = Len(prev)
          THEN CostRowsFrom(x, y, mid + 1, hi, upto_mid, window, warp)
          ELSE <<>>

CostRows(x, y, i, prev, window, warp) ==
  CostRowsFrom(x, y, i, Len(x), prev, window, warp)[Len(y) + 1]

FirstRow(m) == [j \in 1..(m + 1) |-> IF j = 1 THEN 0 ELSE Inf]

\* aeon dtw_distance: the accumulated squared cost at the last cell.
dtw_distance(x, y, window) ==
  CostRows(x, y, 1, FirstRow(Len(y)), window, 0)

\* aeon adtw_distance with its default warp_penalty = 1.0.
WarpPenalty == 1
adtw_distance(x, y, window) ==
  CostRows(x, y, 1, FirstRow(Len(y)), window, WarpPenalty)

\* aeon average_of_slope, times 4 (so that it stays an integer):
\*   d[i] = ((q[i] - q[i-1]) + (q[i+1] - q[i-1]) / 2) / 2,  1 <= i <= n-2.
SlopeScale == 4
average_of_slope4(q) ==
  [i \in 1..(Len(q) - 2) |->
     2 * (q[i + 1] - q[i]) + (q[i + 2] - q[i])]

\* aeon ddtw_distance, times 16: dtw_distance of the two slope series.
ddtw_distance16(x, y, window) ==
  dtw_distance(average_of_slope4(x), average_of_slope4(y), window)

\* ddtw_distance needs three points for one slope.
MinSigLen == 3

(***************************************************************************)
(* Preprocessor (engine/preprocessor.py), normalization = "none".  An OHLCV *)
(* window is held as its close prices, the only column the engine reads.   *)
(***************************************************************************)
np_diff(prices) == [i \in 1..(Len(prices) - 1) |-> prices[i + 1] - prices[i]]

_apply_normalization(data) == data

normalize_pattern(ohlc_data) == _apply_normalization(np_diff(ohlc_data))

(***************************************************************************)
(* PatternLibrary._compute_quality_score, in thousandths.                  *)
(***************************************************************************)
RECURSIVE SumSeq(_)
SumSeq(s) == IF s = <<>> THEN 0 ELSE s[1] + SumSeq(Tail(s))

\* floor(sqrt(n)) by bisection on lo..hi.
RECURSIVE ISqrtIn(_, _, _)
ISqrtIn(n, lo, hi) ==
  IF lo >= hi THEN lo
  ELSE LET mid == (lo + hi + 1) \div 2
       IN IF mid * mid <= n THEN ISqrtIn(n, mid, hi)
          ELSE ISqrtIn(n, lo, mid - 1)
ISqrt(n) == ISqrtIn(n, 0, Min(n, 4 * 10000))

Thousand == 10 * 10 * 10

\* close.pct_change(), without its leading NaN, in thousandths.
pct_change(close) ==
  [i \in 1..(Len(close) - 1) |->
     ((close[i + 1] - close[i]) * Thousand) \div close[i]]

\* Series.std(): the sample standard deviation (ddof = 1).
std(s) ==
  LET n == Len(s)
      mean == SumSeq(s) \div n
      dev2 == [i \in 1..n |-> Sq(s[i] - mean)]
  IN ISqrt(SumSeq(dev2) \div (n - 1))

_compute_quality_score(ohlc_data) ==
  LET returns == pct_change(ohlc_data)
      smoothness == (Thousand * Thousand) \div (Thousand + std(returns))
      completeness == Thousand
  IN (smoothness + completeness) \div 2

(***************************************************************************)
(* Labels.  A label is a string, held as the sequence of the pieces it is  *)
(* made of: "Bullish_flag" is <<"Bullish", "_flag">>.  str.lower() and     *)
(* str.replace() act piece by piece.                                       *)
(***************************************************************************)
Lower(piece) ==
  CASE piece \in {"bullish", "Bullish", "BULLISH"} -> "bullish"
    [] piece \in {"bearish", "Bearish", "BEARISH"} -> "bearish"
    [] piece \in {"_inverted", "_Inverted", "_INVERTED"} -> "_inverted"
    [] OTHER -> piece

\* sub in label.lower()
InLower(sub, label) == \E i \in 1..Len(label) : Lower(label[i]) = sub

\* label.replace(old, new): case-sensitive.
Replace(label, old, new) ==
  [i \in 1..Len(label) |-> IF label[i] = old THEN new ELSE label[i]]

MirrorLabel(label) ==
  IF ~InLower("_inverted", label)
  THEN IF InLower("bullish", label)
         THEN Replace(Replace(label, "bullish", "bearish"), "Bullish", "Bearish")
       ELSE IF InLower("bearish", label)
         THEN Replace(Replace(label, "bearish", "bullish"), "Bearish", "Bullish")
       ELSE Append(label, "_inverted")
  ELSE label

(***************************************************************************)
(* PatternTemplate (models/pattern.py) and the templates PatternLibrary    *)
(* builds.  quality_score is in thousandths.                               *)
(***************************************************************************)
PatternTemplate(id, label, ohlc_data, normalized, quality) ==
  [id |-> id, label |-> label, raw_data |-> ohlc_data,
   normalized |-> normalized, bars_count |-> Len(ohlc_data),
   is_augmented |-> FALSE, augmentation_type |-> None, parent_id |-> None,
   quality_score |-> quality,
   upper_envelope |-> None, lower_envelope |-> None]

\* add_pattern's template.
NewTemplate(id, label, ohlc_data) ==
  PatternTemplate(id, label, ohlc_data, normalize_pattern(ohlc_data),
                  _compute_quality_score(ohlc_data))

Negate(s) == [i \in 1..Len(s) |-> 0 - s[i]]

\* A mirror that keeps the sign of the parent's signal.
_create_mirror_same_sign(template, id) ==
  [PatternTemplate(id, MirrorLabel(template.label), template.raw_data,
                   template.normalized, template.quality_score)
   EXCEPT !.bars_count = template.bars_count,
          !.is_augmented = TRUE,
          !.augmentation_type = Some("mirror"),
          !.parent_id = Some(template.id)]

_create_mirror(template, id) ==
  [PatternTemplate(id, MirrorLabel(template.label), template.raw_data,
                   Negate(template.normalized), template.quality_score)
   EXCEPT !.bars_count = template.bars_count,
          !.is_augmented = TRUE,
          !.augmentation_type = Some("mirror"),
          !.parent_id = Some(template.id)]

\* The keys of a dict in insertion order.  Ids are handed out in increasing
\* order and a key is never inserted twice, so this is the order of the ids.
RECURSIVE InOrder(_)
InOrder(ids) ==
  IF ids = {} THEN <<>>
  ELSE LET lo == CHOOSE i \in ids : \A j \in ids : i <= j
       IN <<lo>> \o InOrder(ids \ {lo})

SeqFilter(s, Keep(_)) == SelectSeq(s, Keep)

(***************************************************************************)
(* State.                                                                  *)
(*   calc         the DTWCalculator's fields, set at construction          *)
(*   matcher      the PatternMatcher's k and use_lb_keogh                  *)
(*   templates    PatternLibrary.templates: the keys of the dict           *)
(*   objs         the PatternTemplate objects, by id; a dict holds         *)
(*                references, so the Evaluator's temporary dict and the    *)
(*                original one share these objects                         *)
(*   index_dirty  PatternLibrary.index_dirty                               *)
(*   disk         library.pkl: None, or the pickled dict                   *)
(*   nextId       the next fresh id (uuid4 never repeats)                  *)
(*   ev           the Evaluator's call in progress: its locals and where   *)
(*                it stands                                                *)
(*   ret          the last call that returned, and what it returned        *)
(*   dist         the distance engine applied to one pair of signals: the  *)
(*                query q, the template signal t, and what has been        *)
(*                computed for them                                        *)
(*   other        the Evaluator call of a second thread that uses the same *)
(*                Backtester, while that thread is not the one running     *)
(*                (ev is the call of the thread that runs); pc = "absent"  *)
(*                when there is no second thread                           *)
(***************************************************************************)
VARIABLES calc, matcher, templates, objs, index_dirty, disk, nextId, ev, ret,
          dist, other, app

vars == <<calc, matcher, templates, objs, index_dirty, disk, nextId, ev, ret,
          dist, other, app>>

config == <<calc, matcher>>
store == <<templates, objs, index_dirty, disk, nextId>>

(***************************************************************************)
(* DTWCalculator (engine/dtw_core.py).                                     *)
(***************************************************************************)
\* A distance: a non-negative rational num/den, or a non-finite float.
NonFinite == [finite |-> FALSE, num |-> 0, den |-> 1]
Rational(n, d) == [finite |-> TRUE, num |-> n, den |-> d]

\* compute_distance: the accumulated cost of the variant the configuration
\* selects, divided by len(query) + len(template).  A NaN in either signal
\* makes every cell of its row (column) of the cost matrix NaN, and with it
\* the last cell: the result is non-finite.
\* Lines 59-72: the aeon call the configuration selects.
RawDistance(c, query, template) ==
  IF c.variant = "derivative" /\ c.constraint = "adtw"
    THEN ddtw_distance16(query, template, Some(c.amercing_penalty))
  ELSE IF c.variant = "derivative" /\ c.constraint = "sakoe_chiba"
    THEN ddtw_distance16(query, template, Some(c.sakoe_chiba_window))
  ELSE IF c.variant = "derivative"
    THEN ddtw_distance16(query, template, None)
  ELSE IF c.constraint = "adtw"
    THEN adtw_distance(query, template, Some(c.amercing_penalty))
  ELSE IF c.constraint = "sakoe_chiba"
    THEN dtw_distance(query, template, Some(c.sakoe_chiba_window))
  ELSE dtw_distance(query, template, None)

\* Lines 74-78: distance / path_length.
Normalized(distance, scale, path_length) ==
  IF distance = Inf THEN NonFinite
  ELSE Rational(distance, scale * path_length)

\* aeon's average_of_slope raises ValueError on a series of fewer than
\* three points; the derivative calls are the ones that take slopes.
DistanceRaises(c, query, template) ==
  /\ c.variant = "derivative"
  /\ Len(query) < MinSigLen \/ Len(template) < MinSigLen

compute_distance(c, query, template) ==
  IF HasNaN(query) \/ HasNaN(template) THEN NonFinite
  ELSE Normalized(RawDistance(c, query, template),
                  IF c.variant = "derivative" THEN SlopeScale * SlopeScale
                  ELSE 1,
                  Len(query) + Len(template))

\* compute_envelopes: running max / min of the template over a symmetric
\* window of int(len * window_fraction) bars, clipped to the series.
SeqMax(s, lo, hi) == CHOOSE v \in {s[k] : k \in lo..hi} :
                       \A k \in lo..hi : s[k] <= v
SeqMin(s, lo, hi) == CHOOSE v \in {s[k] : k \in lo..hi} :
                       \A k \in lo..hi : s[k] >= v

compute_envelopes(c, template, window_fraction) ==
  LET fraction == IF window_fraction = None THEN c.sakoe_chiba_window
                  ELSE window_fraction[1]
      window_size == IntFrac(fraction, Len(template))
      start(i) == Max(1, i - window_size)
      end(i) == Min(Len(template), i + window_size)
  IN [upper |-> [i \in 1..Len(template) |-> SeqMax(template, start(i), end(i))],
      lower |-> [i \in 1..Len(template) |-> SeqMin(template, start(i), end(i))]]

\* compute_lb_keogh, squared: the value returned is the square root of
\* this sum.  A comparison with NaN is false, so a NaN query bar adds 0.
RECURSIVE SumTo(_, _)
SumTo(f, n) == IF n = 0 THEN 0 ELSE f[n] + SumTo(f, n - 1)

compute_lb_keogh_sq(query, upper_envelope, lower_envelope) ==
  LET min_len == Min(Len(query), Len(upper_envelope))
      term == [i \in 1..min_len |->
                 IF query[i] = NaN THEN 0
                 ELSE IF query[i] > upper_envelope[i]
                   THEN Sq(query[i] - upper_envelope[i])
                 ELSE IF query[i] < lower_envelope[i]
                   THEN Sq(lower_envelope[i] - query[i])
                 ELSE 0]
  IN SumTo(term, min_len)

\* sqrt(lbsq) <= d, for a finite distance d = num/den (all non-negative).
LbAtMost(lbsq, d) == lbsq * Sq(d.den) <= Sq(d.num)

(***************************************************************************)
(* list.sort(key = ...): stable, ascending in the key.  An element is a    *)
(* record whose key is a rational; sort(reverse = True) is the same sort   *)
(* on the negated key (equal keys keep their order both ways).             *)
(***************************************************************************)
KeyLe(a, b) == a.num * b.den <= b.num * a.den

RECURSIVE InsertByKey(_, _)
InsertByKey(sorted, e) ==
  IF sorted = <<>> THEN <<e>>
  ELSE IF KeyLe(sorted[1].key, e.key)
    THEN <<sorted[1]>> \o InsertByKey(Tail(sorted), e)
  ELSE <<e>> \o sorted

RECURSIVE SortByKey(_)
SortByKey(s) ==
  IF s = <<>> THEN <<>>
  ELSE InsertByKey(SortByKey(SubSeq(s, 1, Len(s) - 1)), s[Len(s)])

(***************************************************************************)
(* ConfidenceScorer (engine/confidence.py).  Fixed point:                  *)
(*   a distance in millionths (1e-6, the code's epsilon, is 1);            *)
(*   a vote weight 1/(d + 1e-6) in hundredths;                             *)
(*   closeness, consensus, separation, quality in thousandths;             *)
(*   the four weights in hundredths, so a confidence of 1.0 is 100000.     *)
(* k_nearest is a sequence of [id, distance]; T maps an id to its          *)
(* template.                                                               *)
(***************************************************************************)
Million == Thousand * Thousand
WeightUnit == 10 * 10

ToMicro(d) ==
  (d.num \div d.den) * Million + ((d.num % d.den) * Million) \div d.den

\* 1.0 / (distance + 1e-6)
InverseDistance(d) == (Million * WeightUnit) \div (ToMicro(d) + 1)

closeness_weight == 35
consensus_weight == 30
separation_weight == 20
quality_weight == 15

\* The labels of k_nearest, each once, in order of first appearance.
RECURSIVE LabelsOf(_, _)
LabelsOf(k_nearest, T) ==
  IF k_nearest = <<>> THEN <<>>
  ELSE LET rest == LabelsOf(SubSeq(k_nearest, 1, Len(k_nearest) - 1), T)
           l == T[k_nearest[Len(k_nearest)].id].label
       IN IF \E i \in 1..Len(rest) : rest[i] = l THEN rest
          ELSE Append(rest, l)

WithLabel(label, k_nearest, T) ==
  SelectSeq(k_nearest, LAMBDA e : T[e.id].label = label)

SumWeights(same) ==
  SumSeq([i \in 1..Len(same) |-> InverseDistance(same[i].distance)])

_get_label_weight(label, k_nearest, T) ==
  SumWeights(WithLabel(label, k_nearest, T))

\* A closeness capped at 10.0 rather than 1.0.
NearestClosenessUncapped(same) ==
  IF same = <<>> THEN 0
  ELSE Min((Million * WeightUnit) \div (ToMicro(same[1].distance) + 1),
           Thousand * 10)

\* Thousandths of 1.0 / (nearest_distance + 1e-6) / 10, capped at 1.0; the
\* nearest distance is that of the first same-label entry, inf if none.
NearestCloseness(same) ==
  IF same = <<>> THEN 0
  ELSE Min((Million * WeightUnit) \div (ToMicro(same[1].distance) + 1),
           Thousand)

Closeness(label, k_nearest, T) ==
  NearestCloseness(WithLabel(label, k_nearest, T))

Consensus(label, k_nearest, T) ==
  IF k_nearest = <<>> THEN 0
  ELSE (Len(WithLabel(label, k_nearest, T)) * Thousand) \div Len(k_nearest)

\* Thousandths of a / (b + 1e-6) for 0 <= a <= b, without overflow.
Ratio(a, b) ==
  IF b = 0 THEN 0
  ELSE IF b < Million THEN (a * Thousand) \div b
  ELSE a \div (b \div Thousand)

\* Lines 74-76 on the labels sorted by descending weight.
Gap(sorted_labels) ==
  IF Len(sorted_labels) > 1
  THEN Ratio(sorted_labels[2].key.num - sorted_labels[1].key.num,
             0 - sorted_labels[1].key.num)
  ELSE Thousand

Weighted(all_labels, k_nearest, T) ==
  [i \in 1..Len(all_labels) |->
     [label |-> all_labels[i],
      key |-> [num |-> 0 - _get_label_weight(all_labels[i], k_nearest, T),
               den |-> 1]]]

Separation(k_nearest, T) ==
  Gap(SortByKey(Weighted(LabelsOf(k_nearest, T), k_nearest, T)))

MeanQuality(same, T) ==
  IF same = <<>> THEN 0
  ELSE SumSeq([i \in 1..Len(same) |-> T[same[i].id].quality_score])
         \div Len(same)

AvgQuality(label, k_nearest, T) ==
  MeanQuality(WithLabel(label, k_nearest, T), T)

compute_confidence(label, k_nearest, vote_weight, T) ==
  closeness_weight * Closeness(label, k_nearest, T)
    + consensus_weight * Consensus(label, k_nearest, T)
    + separation_weight * Separation(k_nearest, T)
    + quality_weight * AvgQuality(label, k_nearest, T)

(***************************************************************************)
(* PatternMatcher (engine/pattern_matcher.py).  m holds the matcher's      *)
(* construction parameters k and use_lb_keogh; keys is the Store's mapping *)
(* in insertion order.                                                     *)
(***************************************************************************)
DefaultK == 5
DefaultPercentile == 20

\* The (upper, lower) pair the prune stage reads from a template.
EnvelopeOf(t) == <<t.upper_envelope, t.lower_envelope>>

LbOf(c, query, t) ==
  IF t.upper_envelope = None \/ t.lower_envelope = None THEN 0
  ELSE compute_lb_keogh_sq(query, t.upper_envelope[1], t.lower_envelope[1])

\* A prune stage that keeps one candidate whatever the size of the dict.
KeepClosestOne(lb_distances, percentile) ==
  [i \in 1..Min(Len(lb_distances), 1) |-> lb_distances[i].id]

\* Lines 147-150: the ids of the first max(1, int(N * percentile)) entries.
KeepClosest(lb_distances, percentile) ==
  [i \in 1..Min(Len(lb_distances),
                Max(1, IntFrac(percentile, Len(lb_distances)))) |->
     lb_distances[i].id]

_filter_candidates_lb_keogh(c, m, keys, T, query, percentile) ==
  IF ~m.use_lb_keogh \/ keys = <<>> THEN keys
  ELSE KeepClosest(SortByKey([i \in 1..Len(keys) |->
                                [id |-> keys[i],
                                 key |-> [num |-> LbOf(c, query, T[keys[i]]),
                                          den |-> 1]]]),
                   percentile)

\* A rank stage that keeps the non-finite distances.
DistancesUnfiltered(c, candidates, T, query) ==
  SortByKey([i \in 1..Len(candidates) |->
               [id |-> candidates[i],
                key |-> compute_distance(c, query,
                                         T[candidates[i]].normalized)]])

\* A rank stage that leaves the finite distances in candidate order.
DistancesUnsorted(c, candidates, T, query) ==
  SelectSeq([i \in 1..Len(candidates) |->
               [id |-> candidates[i],
                key |-> compute_distance(c, query,
                                         T[candidates[i]].normalized)]],
            LAMBDA e : e.key.finite)

\* Steps 2 and 3: the exact distance of every candidate, the non-finite
\* ones dropped, sorted ascending.
Distances(c, candidates, T, query) ==
  LET all == [i \in 1..Len(candidates) |->
                [id |-> candidates[i],
                 key |-> compute_distance(c, query,
                                          T[candidates[i]].normalized)]]
  IN SortByKey(SelectSeq(all, LAMBDA e : e.key.finite))

\* A rank stage that keeps every distance, whatever k is.
KNearestAll(m, distances) ==
  [i \in 1..Len(distances) |->
     [id |-> distances[i].id, distance |-> distances[i].key]]

KNearest(m, distances) ==
  [i \in 1..Min(m.k, Len(distances)) |->
     [id |-> distances[i].id, distance |-> distances[i].key]]

_weighted_voting(k_nearest, T) ==
  LET labels == LabelsOf(k_nearest, T)
  IN [i \in 1..Len(labels) |->
        [label |-> labels[i],
         vote_weight |-> _get_label_weight(labels[i], k_nearest, T)]]

\* The lowest-distance entry of k_nearest with the label (the first one on
\* a tie).
First(same) ==
  same[CHOOSE i \in 1..Len(same) :
         /\ \A j \in 1..Len(same) : KeyLe(same[i].distance, same[j].distance)
         /\ \A j \in 1..(i - 1) : ~KeyLe(same[j].distance, same[i].distance)].id

BestTemplate(label, k_nearest, T) == First(WithLabel(label, k_nearest, T))

\* Step 5: one scored entry per voted label, in voting order.
Scored(label_votes, k_nearest, T) ==
  [i \in 1..Len(label_votes) |->
     [label |-> label_votes[i].label,
      confidence |-> compute_confidence(label_votes[i].label, k_nearest,
                                        label_votes[i].vote_weight, T),
      vote_weight |-> label_votes[i].vote_weight,
      best_match_template |-> BestTemplate(label_votes[i].label, k_nearest, T)]]

\* A result list that keeps every scored label.
ThresholdNone(scored, min_confidence) == scored

Threshold(scored, min_confidence) ==
  SelectSeq(scored, LAMBDA s : s.confidence >= min_confidence)

Unkeyed(keyed) == [i \in 1..Len(keyed) |-> keyed[i].m]

SortMatches(matches) ==
  Unkeyed(SortByKey([i \in 1..Len(matches) |->
                       [m |-> matches[i],
                        key |-> [num |-> 0 - matches[i].confidence,
                                 den |-> 1]]]))

\* find_matches after its rebuild step: what it returns (matches) and what
\* each stage produced on the way.  scorer_calls counts compute_confidence.
NoMatches(candidates) ==
  [candidates |-> candidates, k_nearest |-> <<>>, scored |-> <<>>,
   matches |-> <<>>, scorer_calls |-> 0]

\* Lines 86-114: the scored labels, thresholded and sorted.
Matches(candidates, k_nearest, scored, min_confidence) ==
  [candidates |-> candidates, k_nearest |-> k_nearest, scored |-> scored,
   matches |-> SortMatches(Threshold(scored, min_confidence)),
   scorer_calls |-> Len(scored)]

\* Lines 83-84: voting over k_nearest.
Voted(candidates, k_nearest, T, min_confidence) ==
  Matches(candidates, k_nearest,
          Scored(_weighted_voting(k_nearest, T), k_nearest, T),
          min_confidence)

\* Lines 76-81: nothing to rank, or the k nearest.
Ranked(m, candidates, distances, T, min_confidence) ==
  IF distances = <<>> THEN NoMatches(candidates)
  ELSE Voted(candidates, KNearest(m, distances), T, min_confidence)

\* Lines 62-74: no candidate, or their distances.
Pruned(c, m, candidates, T, query, min_confidence) ==
  IF candidates = <<>> THEN NoMatches(candidates)
  ELSE Ranked(m, candidates, Distances(c, candidates, T, query), T,
              min_confidence)

\* Lines 66-71: compute_distance raises on one of the candidates.
AnyRaises(c, candidates, T, query) ==
  \E i \in 1..Len(candidates) :
    DistanceRaises(c, query, T[candidates[i]].normalized)

MatchPipeline(c, m, keys, T, query, min_confidence) ==
  Pruned(c, m,
         _filter_candidates_lb_keogh(c, m, keys, T, query, DefaultPercentile),
         T, query, min_confidence)

(***************************************************************************)
(* PatternLibrary (engine/pattern_library.py) and the handlers of the      *)
(* library page that act on its dict directly.                             *)
(***************************************************************************)
DefaultMatcher == [k |-> DefaultK, use_lb_keogh |-> TRUE]
Idle == [pc |-> "idle"]
Absent == [pc |-> "absent"]

\* What add_pattern is called with.
LabelA == <<"bullish", "_flag">>
LabelB == <<"wedge">>
WindowA == <<2, 3, 5, 3, 2>>
WindowA2 == <<2, 3, 5, 3, 3>>
WindowB == <<5, 3, 2, 3, 5>>
CorePatterns == {[label |-> LabelA, ohlc_data |-> WindowA],
                 [label |-> LabelB, ohlc_data |-> WindowB]}
Patterns == CorePatterns \cup {[label |-> LabelA, ohlc_data |-> WindowA2]}

\* A pickle that writes an empty dict.
PickleEmpty(keys, T) == [keys |-> {}, objs |-> [i \in {} |-> i]]

\* The dict as pickle writes it: the keys and a copy of each object.
Pickle(keys, T) == [keys |-> keys, objs |-> [i \in keys |-> T[i]]]

\* The objects something still refers to: a dict of the library or a local
\* of the Evaluator.
Held(e) ==
  IF e.pc \in {"idle", "absent", "scan"} THEN {}
  ELSE e.original_templates \cup {e.templates[i] : i \in 1..Len(e.templates)}
Referenced(keys, e) == keys \cup Held(e) \cup Held(other)
Collect(T, live) == [i \in (DOMAIN T) \cap live |-> T[i]]

\* build_index: the envelopes of every template of the dict.
WithEnvelopes(c, t, window_fraction) ==
  LET e == compute_envelopes(c, t.normalized, window_fraction)
  IN [t EXCEPT !.upper_envelope = Some(e.upper),
               !.lower_envelope = Some(e.lower)]

\* A rebuild that stops after the first template of the dict.
build_index_first(c, keys, T, window_fraction) ==
  [i \in DOMAIN T |->
     IF i \in keys /\ \A j \in keys : i <= j
     THEN WithEnvelopes(c, T[i], window_fraction) ELSE T[i]]

build_index(c, keys, T, window_fraction) ==
  [i \in DOMAIN T |->
     IF i \in keys THEN WithEnvelopes(c, T[i], window_fraction) ELSE T[i]]

\* get_all_labels
get_all_labels(keys, T) == {T[i].label : i \in keys}

Sequential == ev.pc = "idle"

\* label_patterns.py _save_pattern: library.add_pattern(...); library.save()
AddPattern(label, ohlc_data) ==
  /\ nextId <= MaxIds
  /\ templates' = templates \cup {nextId}
  /\ objs' = [i \in (DOMAIN objs) \cup {nextId} |->
                IF i = nextId THEN NewTemplate(nextId, label, ohlc_data)
                ELSE objs[i]]
  /\ index_dirty' = TRUE
  /\ nextId' = nextId + 1
  /\ disk' = Some(Pickle(templates', objs'))
  /\ ret' = [op |-> "add_pattern", id |-> nextId]
  /\ UNCHANGED <<config, ev, dist, other, app>>

\* augment_library: one mirror per non-augmented template of the dict, each
\* under a fresh id, in the order of the dict.  The handler of the library
\* page (view_library.py) saves after it.
\* An augmentation that mirrors every template of the dict.
OriginalsAndMirrors(keys, T) == InOrder(keys)

Originals(keys, T) == SelectSeq(InOrder(keys), LAMBDA i : ~T[i].is_augmented)

AugmentLibrary(mirror_patterns) ==
  LET original_templates == Originals(templates, objs)
      n == IF mirror_patterns THEN Len(original_templates) ELSE 0
      new == nextId..(nextId + n - 1)
  IN /\ nextId + n - 1 <= MaxIds
     /\ templates' = templates \cup new
     /\ objs' = [i \in (DOMAIN objs) \cup new |->
                   IF i \in new
                   THEN _create_mirror(objs[original_templates[i - nextId + 1]], i)
                   ELSE objs[i]]
     /\ index_dirty' = TRUE
     /\ nextId' = nextId + n
     /\ disk' = Some(Pickle(templates', objs'))
     /\ ret' = [op |-> "augment_library", added |-> new]
     /\ UNCHANGED <<config, ev, dist, other, app>>

\* view_library.py build_index: library.build_index(); library.save()
BuildIndex ==
  /\ objs' = build_index(calc, templates, objs, None)
  /\ index_dirty' = FALSE
  /\ disk' = Some(Pickle(templates, objs'))
  /\ ret' = [op |-> "build_index"]
  /\ UNCHANGED <<config, templates, nextId, ev, dist, other, app>>

Save ==
  /\ disk' = Some(Pickle(templates, objs))
  /\ ret' = [op |-> "save"]
  /\ UNCHANGED <<config, templates, objs, index_dirty, nextId, ev, dist, other, app>>

\* load: the pickled dict if library.pkl exists, else an empty dict.
Load ==
  /\ IF disk # None
     THEN /\ templates' = disk[1].keys
          /\ objs' = [i \in Referenced(disk[1].keys, ev) |->
                        IF i \in disk[1].keys THEN disk[1].objs[i] ELSE objs[i]]
          /\ index_dirty' = TRUE
     ELSE /\ templates' = {}
          /\ objs' = Collect(objs, Referenced({}, ev))
          /\ UNCHANGED index_dirty
  /\ ret' = [op |-> "load", found |-> disk # None, fresh |-> FALSE]
  /\ UNCHANGED <<config, disk, nextId, ev, dist, other, app>>

\* app_init.py initialize_pattern_library in a new process: a new
\* PatternLibrary on the same storage path, then load().
Restart ==
  /\ templates' = IF disk # None THEN disk[1].keys ELSE {}
  /\ objs' = IF disk # None THEN disk[1].objs ELSE [i \in {} |-> i]
  /\ index_dirty' = (disk # None)
  /\ ev' = Idle
  /\ ret' = [op |-> "load", found |-> disk # None, fresh |-> TRUE]
  /\ UNCHANGED <<config, disk, nextId, dist, other, app>>

\* view_library.py delete_pattern: del library.templates[t.id]; library.save()
DeletePattern(id) ==
  /\ id \in templates
  /\ templates' = templates \ {id}
  /\ objs' = Collect(objs, Referenced(templates \ {id}, ev))
  /\ disk' = Some(Pickle(templates', objs'))
  /\ ret' = [op |-> "delete_pattern", id |-> id]
  /\ UNCHANGED <<config, index_dirty, nextId, ev, dist, other, app>>

\* label_patterns.py save_changes: template.label = new_label; library.save()
\* The new label is one of get_all_labels(), and not the template's own.
EditLabel(id, new_label) ==
  /\ id \in templates
  /\ new_label \in get_all_labels(templates, objs)
  /\ new_label # objs[id].label
  /\ objs' = [objs EXCEPT ![id].label = new_label]
  /\ disk' = Some(Pickle(templates, objs'))
  /\ ret' = [op |-> "edit_label", id |-> id]
  /\ UNCHANGED <<config, templates, index_dirty, nextId, ev, dist, other, app>>

(***************************************************************************)
(* PatternMatcher.find_matches, called by a user of the matcher.           *)
(***************************************************************************)
\* A find_matches that goes on to prune without looking at the flag.
RebuildSkipped(c, dirty, keys, T) == [objs |-> T, index_dirty |-> dirty]

\* Lines 56-57: rebuild the index if it is dirty.
Rebuild(c, dirty, keys, T) ==
  IF dirty THEN [objs |-> build_index(c, keys, T, None), index_dirty |-> FALSE]
  ELSE [objs |-> T, index_dirty |-> dirty]

\* The envelopes the prune stage reads: those of every template of the dict
\* when pruning is enabled, none otherwise.
PruneReads(m, keys, T) ==
  [i \in (IF m.use_lb_keogh THEN keys ELSE {}) |-> EnvelopeOf(T[i])]

\* The whole call on the library as it stands: the library after it and
\* what the call returns.
Matched(m, dirty, keys, r, query, min_confidence, out) ==
  [objs |-> r.objs, index_dirty |-> r.index_dirty,
   ret |-> [op |-> "find_matches", query |-> query,
            min_confidence |-> min_confidence,
            was_dirty |-> dirty,
            reads |-> PruneReads(m, keys, r.objs),
            out |-> out]]

AfterRebuild(c, m, dirty, keys, r, query, min_confidence) ==
  Matched(m, dirty, keys, r, query, min_confidence,
          MatchPipeline(c, m, InOrder(keys), r.objs, query, min_confidence))

find_matches(c, m, dirty, keys, T, query, min_confidence) ==
  AfterRebuild(c, m, dirty, keys, Rebuild(c, dirty, keys, T), query,
               min_confidence)

\* The call raises: after the rebuild and the prune stage, at the distance
\* of a candidate.  Only a series shorter than three points can make it.
PipelineRaises(c, m, keys, T, query) ==
  AnyRaises(c,
            _filter_candidates_lb_keogh(c, m, InOrder(keys), T, query,
                                        DefaultPercentile),
            T, query)

find_matches_raises(c, m, dirty, keys, T, query) ==
  /\ \/ Len(query) < MinSigLen
     \/ \E id \in keys : Len(T[id].normalized) < MinSigLen
  /\ PipelineRaises(c, m, keys, Rebuild(c, dirty, keys, T).objs, query)

\* The exception reaches the caller of find_matches: the rebuild stays.
RaisedFrom(r) ==
  /\ objs' = r.objs
  /\ index_dirty' = r.index_dirty
  /\ ret' = [op |-> "raise", in |-> "find_matches", entry |-> templates]
  /\ UNCHANGED <<config, templates, disk, nextId, ev, dist, other, app>>

Returns(f) ==
  /\ objs' = f.objs
  /\ index_dirty' = f.index_dirty
  /\ ret' = f.ret
  /\ UNCHANGED <<config, templates, disk, nextId, ev, dist, other, app>>

FindMatches(query, min_confidence) ==
  IF find_matches_raises(calc, matcher, index_dirty, templates, objs, query)
  THEN RaisedFrom(Rebuild(calc, index_dirty, templates, objs))
  ELSE Returns(find_matches(calc, matcher, index_dirty, templates, objs,
                            query, min_confidence))

(***************************************************************************)
(* Backtester (engine/backtester.py).  One action per step of a call: the  *)
(* call itself, then per fold the swap-in, the held-out query and the      *)
(* swap-back, then the return.  With at most 10 eligible templates every   *)
(* split is Leave-One-Out: fold i holds out the i-th eligible template.    *)
(***************************************************************************)
NO_MATCH == <<"NO_MATCH">>

\* An eligibility filter that ignores exclude_augmented.
EligibleAll(keys, T, exclude_augmented) == InOrder(keys)

Eligible(keys, T, exclude_augmented) ==
  SelectSeq(InOrder(keys), LAMBDA i : ~(exclude_augmented /\ T[i].is_augmented))

\* A fold that leaves the held-out template in.
TrainingSetAll(eligible, fold) == {eligible[i] : i \in 1..Len(eligible)}

\* The temporary dict of a fold: the eligible templates but the held-out one.
TrainingSet(eligible, fold) ==
  {eligible[i] : i \in (1..Len(eligible)) \ {fold}}

\* A swap that keeps no reference to the dict it replaces.
SavedNothing(current) == {}

\* original_templates = self.library.templates
Saved(current) == current

\* A swap that leaves the flag as it finds it.
SwapDirtyKept(dirty) == dirty

\* self.library.index_dirty = True, after each assignment of the dict.
SwapDirty(dirty) == TRUE

\* A restore that keeps what the fold left in the temporary dict.
RestoredMerged(current, original_templates) ==
  current \cup original_templates

\* A fold that is never undone.
RestoredCurrent(current, original_templates) == current

\* What library.templates is set to after a fold.
Restored(current, original_templates) == original_templates

Running(mode, entry, eligible, T, min_confidence, exclude_augmented, thresholds) ==
  [pc |-> "swap_in", mode |-> mode, entry |-> entry,
   min_confidence |-> min_confidence,
   exclude_augmented |-> exclude_augmented,
   templates |-> eligible,
   y |-> [i \in 1..Len(eligible) |-> T[eligible[i]].label],
   fold |-> 1, original_templates |-> {},
   y_true |-> <<>>, y_pred |-> <<>>, y_conf |-> <<>>,
   thresholds |-> thresholds, rows |-> 0]

\* A strategy choice that never takes Leave-One-Out.
CvNameKFold(n) == "K-Fold"

\* Lines 64-69: Leave-One-Out up to 10 templates, K-fold above.
LooLimit == 10
CvName(n) == IF n <= LooLimit THEN "Leave-One-Out" ELSE "K-Fold"

\* _calculate_metrics: the counts its ratios are made of.
_calculate_metrics(y_true, y_pred, y_conf) ==
  [correct |-> Cardinality({i \in 1..Len(y_true) : y_true[i] = y_pred[i]}),
   matched |-> Cardinality({i \in 1..Len(y_pred) : y_pred[i] # NO_MATCH}),
   total_samples |-> Len(y_true),
   predictions |-> [i \in 1..Len(y_true) |->
                      <<y_true[i], y_pred[i], y_conf[i]>>]]

CrossValidate(min_confidence, exclude_augmented) ==
  LET eligible == Eligible(templates, objs, exclude_augmented)
  IN /\ ev.pc = "idle"
     /\ IF Len(eligible) < 2
        THEN /\ ret' = [op |-> "cross_validate", entry |-> templates,
                        error |-> TRUE, template_count |-> Len(eligible),
                        exclude_augmented |-> exclude_augmented]
             /\ ev' = Idle
        ELSE /\ ret' = [op |-> "call"]
             /\ ev' = Running("cross_validate", templates, eligible, objs,
                              min_confidence, exclude_augmented, <<>>)
     /\ UNCHANGED <<config, store, dist, other, app>>

GetConfusionMatrix(min_confidence, exclude_augmented) ==
  LET eligible == Eligible(templates, objs, exclude_augmented)
      run == Running("get_confusion_matrix", templates, eligible, objs,
                     min_confidence, exclude_augmented, <<>>)
  IN /\ ev.pc = "idle"
     /\ ret' = [op |-> "call"]
     /\ ev' = IF eligible = <<>> THEN [run EXCEPT !.pc = "return"] ELSE run
     /\ UNCHANGED <<config, store, dist, other, app>>

\* test_confidence_thresholds: cross_validate once per threshold, a row per
\* run that reports no error.
TestConfidenceThresholds(thresholds, exclude_augmented) ==
  LET eligible == Eligible(templates, objs, exclude_augmented)
  IN /\ ev.pc = "idle"
     /\ IF Len(eligible) < 2
        THEN /\ ret' = [op |-> "test_confidence_thresholds",
                        entry |-> templates, error |-> FALSE, rows |-> 0]
             /\ ev' = Idle
        ELSE /\ ret' = [op |-> "call"]
             /\ ev' = Running("test_confidence_thresholds", templates,
                              eligible, objs, Head(thresholds),
                              exclude_augmented, Tail(thresholds))
     /\ UNCHANGED <<config, store, dist, other, app>>

SwapIn ==
  /\ ev.pc = "swap_in"
  /\ ev' = [ev EXCEPT !.pc = "query", !.original_templates = Saved(templates)]
  /\ templates' = TrainingSet(ev.templates, ev.fold)
  /\ index_dirty' = SwapDirty(index_dirty)
  /\ ret' = [op |-> "call"]
  /\ UNCHANGED <<config, objs, disk, nextId, dist, other, app>>

\* The held-out query, at threshold 0, and the prediction made from it.
\* Lines 95-104: the prediction made from the matches of the held-out query.
Predicted(matches, hit) ==
  ev' = [ev EXCEPT
           !.pc = "swap_back",
           !.y_true = Append(@, ev.y[ev.fold]),
           !.y_pred = Append(@, IF hit THEN matches[1].label ELSE NO_MATCH),
           !.y_conf = Append(@, IF hit THEN matches[1].confidence ELSE 0)]

Predict(matches) ==
  Predicted(matches,
            matches # <<>> /\ matches[1].confidence >= ev.min_confidence)

Queried(f) ==
  /\ objs' = f.objs
  /\ index_dirty' = f.index_dirty
  /\ ret' = f.ret
  /\ Predict(f.ret.out.matches)
  /\ UNCHANGED <<config, templates, disk, nextId, dist, other, app>>

\* The held-out query raises: nothing in cross_validate or
\* get_confusion_matrix catches it, the call ends where it is and its
\* locals go.
Raised(r) ==
  /\ objs' = Collect(r.objs, Referenced(templates, Idle))
  /\ index_dirty' = r.index_dirty
  /\ ev' = Idle
  /\ ret' = [op |-> "raise", in |-> ev.mode, entry |-> ev.entry]
  /\ UNCHANGED <<config, templates, disk, nextId, dist, other, app>>

Query ==
  /\ ev.pc = "query"
  /\ IF find_matches_raises(calc, matcher, index_dirty, templates, objs,
                            objs[ev.templates[ev.fold]].normalized)
     THEN Raised(Rebuild(calc, index_dirty, templates, objs))
     ELSE Queried(find_matches(calc, matcher, index_dirty, templates, objs,
                               objs[ev.templates[ev.fold]].normalized, 0))

SwapBack ==
  /\ ev.pc = "swap_back"
  /\ templates' = Restored(templates, ev.original_templates)
  /\ index_dirty' = SwapDirty(index_dirty)
  /\ ev' = [ev EXCEPT !.pc = IF ev.fold = Len(ev.templates) THEN "return"
                             ELSE "swap_in",
                      !.fold = @ + 1,
                      !.original_templates = {}]
  /\ ret' = [op |-> "call"]
  /\ UNCHANGED <<config, objs, disk, nextId, dist, other, app>>

\* The return of the call, or, in test_confidence_thresholds with a
\* threshold left, the next cross_validate.
Return ==
  LET metrics == _calculate_metrics(ev.y_true, ev.y_pred, ev.y_conf)
      again == ev.mode = "test_confidence_thresholds" /\ ev.thresholds # <<>>
      eligible == Eligible(templates, objs, ev.exclude_augmented)
  IN /\ ev.pc = "return"
     /\ IF again
        THEN /\ ev' = [Running(ev.mode, ev.entry, eligible, objs,
                               Head(ev.thresholds), ev.exclude_augmented,
                               Tail(ev.thresholds))
                       EXCEPT !.rows = ev.rows + 1]
             /\ ret' = [op |-> "call"]
        ELSE /\ ev' = Idle
             /\ ret' = [op |-> ev.mode, entry |-> ev.entry, error |-> FALSE,
                        exclude_augmented |-> ev.exclude_augmented,
                        rows |-> ev.rows + 1,
                        min_confidence |-> ev.min_confidence,
                        template_count |-> Len(ev.templates),
                        cv_strategy |-> CvName(Len(ev.templates)),
                        metrics |-> metrics]
     /\ objs' = Collect(objs, Referenced(templates, Idle))
     /\ UNCHANGED <<config, templates, index_dirty, disk, nextId, dist, other, app>>

(***************************************************************************)
(* The engine, single-threaded: a call runs to its return before the next  *)
(* one starts.  Spec is the Store with its handlers, the Matcher and       *)
(* cross_validate, on the smallest inputs; SpecMatch and SpecEval are the  *)
(* Store with the Matcher and the Store with the three Evaluator calls, on *)
(* every input.                                                            *)
(***************************************************************************)
MatcherConfigs == [k : {DefaultK}, use_lb_keogh : BOOLEAN]

\* PatternMatcher(k = 2): fewer neighbours than a library of three holds.
ScenarioK == 2
ScenarioConfigs == [k : {ScenarioK}, use_lb_keogh : BOOLEAN]

\* A window with a gap: one NaN close makes two NaN differences.
NaNQuery == <<1, NaN, NaN, 0 - 1>>
Queries == {normalize_pattern(WindowA), normalize_pattern(WindowB), NaNQuery}

\* Confidence thresholds, a confidence of 1.0 being 100000.
DefaultMinConfidence == 70000
MinConfidences == {0, DefaultMinConfidence}
SweepThresholds == <<50 * Thousand, DefaultMinConfidence>>

NoDist == [q |-> <<>>, t |-> <<>>, env |-> None, lb |-> None, d |-> None]

\* The application state before any page is loaded: AppState.__init__
\* (data and _objects empty), no PatternLibrary object made yet (libs maps a
\* library object to the ids of its templates), no library.pkl.
EmptyDict == [key \in {} |-> key]
NoApp == [data |-> EmptyDict, _objects |-> EmptyDict, libs |-> EmptyDict,
          pkl |-> None, next |-> 1, saved |-> 0]

\* A fresh PatternLibrary on a storage path with no library.pkl.
NewLibrary ==
  /\ calc = DefaultConfig
  /\ templates = {}
  /\ objs = <<>>
  /\ index_dirty = FALSE
  /\ disk = None
  /\ nextId = 1
  /\ ev = Idle
  /\ ret = [op |-> "__init__"]
  /\ dist = NoDist
  /\ app = NoApp

\* One thread.
Fresh == NewLibrary /\ other = Absent

Init == Fresh /\ matcher = DefaultMatcher

Next ==
  \/ Sequential /\ \E p \in CorePatterns : AddPattern(p.label, p.ohlc_data)
  \/ Sequential /\ \E mirror_patterns \in BOOLEAN : AugmentLibrary(mirror_patterns)
  \/ Sequential /\ BuildIndex
  \/ Sequential /\ Save
  \/ Sequential /\ Load
  \/ Sequential /\ Restart
  \/ Sequential /\ \E id \in templates : DeletePattern(id)
  \/ Sequential /\ \E id \in templates :
       \E l \in get_all_labels(templates, objs) : EditLabel(id, l)
  \/ Sequential /\ FindMatches(normalize_pattern(WindowA), DefaultMinConfidence)
  \/ CrossValidate(DefaultMinConfidence, TRUE)
  \/ SwapIn
  \/ Query
  \/ SwapBack
  \/ Return

Spec == Init /\ [][Next]_vars

InitMatch == Fresh /\ matcher \in MatcherConfigs

NextMatch ==
  \/ \E p \in Patterns : AddPattern(p.label, p.ohlc_data)
  \/ \E mirror_patterns \in BOOLEAN : AugmentLibrary(mirror_patterns)
  \/ BuildIndex
  \/ \E id \in templates : DeletePattern(id)
  \/ \E q \in Queries, c \in MinConfidences : FindMatches(q, c)

SpecMatch == InitMatch /\ [][NextMatch]_vars

(***************************************************************************)
(* The Matcher on a library large enough for the prune stage to keep more  *)
(* than one candidate: the state after n add_pattern calls, n up to        *)
(* MaxLibrary.                                                             *)
(***************************************************************************)
MaxLibrary == 10

Added(n, p) == [i \in 1..n |-> NewTemplate(i, p[i].label, p[i].ohlc_data)]

InitPrune ==
  /\ calc = DefaultConfig
  /\ matcher \in MatcherConfigs
  /\ ev = Idle
  /\ dist = NoDist
  /\ other = Absent
  /\ app = NoApp
  /\ \E n \in 0..MaxLibrary : \E p \in [1..n -> CorePatterns] :
       /\ templates = 1..n
       /\ objs = Added(n, p)
       /\ index_dirty = (n > 0)
       /\ disk = IF n = 0 THEN None ELSE Some(Pickle(1..n, Added(n, p)))
       /\ nextId = n + 1
       /\ ret = IF n = 0 THEN [op |-> "__init__"]
                ELSE [op |-> "add_pattern", id |-> n]

NextPrune == \E q \in Queries : FindMatches(q, DefaultMinConfidence)

SpecPrune == InitPrune /\ [][NextPrune]_vars

(***************************************************************************)
(* Mirroring on its own: one template under every label within the bounds, *)
(* the labelling page taking free text, then augment_library.              *)
(***************************************************************************)
MaxPieces == 2
LabelPieces ==
  {"bullish", "Bullish", "BULLISH", "bearish", "Bearish", "BEARISH",
   "_inverted", "_INVERTED", "_flag"}
RECURSIVE LabelsOfLen(_)
LabelsOfLen(n) ==
  IF n = 0 THEN {<<>>}
  ELSE {Append(l, piece) : l \in LabelsOfLen(n - 1), piece \in LabelPieces}
FreeLabels == UNION {LabelsOfLen(n) : n \in 1..MaxPieces}

NextRelabel ==
  \/ templates = {} /\ \E label \in FreeLabels : AddPattern(label, WindowA)
  \/ Cardinality(templates) = 1 /\ AugmentLibrary(TRUE)

SpecRelabel == Init /\ [][NextRelabel]_vars

(***************************************************************************)
(* The Evaluator on a library that can hold a window of three bars: its    *)
(* signal has two points, and a derivative distance on it raises.          *)
(***************************************************************************)
WindowShort == <<2, 3, 5>>
ShortPatterns == CorePatterns \cup {[label |-> LabelB, ohlc_data |-> WindowShort]}

NextRaise ==
  \/ Sequential /\ \E p \in ShortPatterns : AddPattern(p.label, p.ohlc_data)
  \/ Sequential /\ Save
  \/ CrossValidate(DefaultMinConfidence, TRUE)
  \/ GetConfusionMatrix(DefaultMinConfidence, TRUE)
  \/ SwapIn
  \/ Query
  \/ SwapBack
  \/ Return

InitRaise == Fresh /\ matcher \in MatcherConfigs

SpecRaise == InitRaise /\ [][NextRaise]_vars

\* The Store and the Matcher, the Matcher built with k = 2.
InitScenario == Fresh /\ matcher \in ScenarioConfigs

SpecScenario == InitScenario /\ [][NextMatch]_vars

InitEval == Fresh /\ matcher \in MatcherConfigs

NextEval ==
  \/ Sequential /\ \E p \in Patterns : AddPattern(p.label, p.ohlc_data)
  \/ Sequential /\ \E mirror_patterns \in BOOLEAN : AugmentLibrary(mirror_patterns)
  \/ Sequential /\ \E id \in templates : DeletePattern(id)
  \/ \E c \in MinConfidences, x \in BOOLEAN : CrossValidate(c, x)
  \/ \E c \in MinConfidences, x \in BOOLEAN : GetConfusionMatrix(c, x)
  \/ \E x \in BOOLEAN : TestConfidenceThresholds(SweepThresholds, x)
  \/ SwapIn
  \/ Query
  \/ SwapBack
  \/ Return

SpecEval == InitEval /\ [][NextEval]_vars

(***************************************************************************)
(* The Evaluator on a Store whose labels come from the "Custom Pattern     *)
(* Label" field of the labelling page (label_patterns.py), a free text.    *)
(***************************************************************************)
CustomLabels == {LabelA, NO_MATCH}
CustomPatterns ==
  {[label |-> l, ohlc_data |-> w] : l \in CustomLabels, w \in {WindowA, WindowB}}

NextLabels ==
  \/ Sequential /\ \E p \in CustomPatterns : AddPattern(p.label, p.ohlc_data)
  \/ \E c \in MinConfidences : CrossValidate(c, TRUE)
  \/ SwapIn
  \/ Query
  \/ SwapBack
  \/ Return

SpecLabels == Init /\ [][NextLabels]_vars

(***************************************************************************)
(* Backtester.backtest_on_data: the sliding-window scan, one action per    *)
(* window.  The series is held as its close prices; ddtw needs a query of  *)
(* three points, so a window has at least four bars.                       *)
(***************************************************************************)
ScenarioBars == 10 * 10
ScenarioWindow == ScenarioBars \div 2
ScenarioStep == ScenarioBars \div 2
MinWindow == MinSigLen + 1

\* A series of n bars: the closes of WindowA, repeated.
SeriesOf(n) == [i \in 1..n |-> WindowA[((i - 1) % Len(WindowA)) + 1]]

ScanBars == (0..MaxBars) \cup {ScenarioBars}
ScanWindows == (MinWindow..MaxBars) \cup {ScenarioWindow}
ScanSteps == (1..MaxStep) \cup {ScenarioStep}

\* ohlc_data.iloc[a:b]: rows a..b-1 (0-based), clipped to the series.
iloc(ohlc_data, a, b) == SubSeq(ohlc_data, a + 1, Min(b, Len(ohlc_data)))

\* A scan that stops one position early.
RangeStopShort(n, window_size) == n - window_size

\* The stop of range(0, len(ohlc_data) - window_size + 1, step).
RangeStop(n, window_size) == n - window_size + 1

BacktestOnData(n, window_size, step, min_confidence) ==
  /\ ev.pc = "idle"
  /\ ev' = [pc |-> "scan", ohlc_data |-> SeriesOf(n),
            window_size |-> window_size, step |-> step,
            min_confidence |-> min_confidence, i |-> 0,
            positions |-> <<>>, bars |-> <<>>, calls |-> 0,
            detections |-> <<>>]
  /\ ret' = [op |-> "call"]
  /\ UNCHANGED <<config, store, dist, other, app>>

\* Lines 293-303: one detection per match of the window.
Detections(i, window_size, matches) ==
  [k \in 1..Len(matches) |->
     [start_index |-> i, end_index |-> i + window_size,
      label |-> matches[k].label, confidence |-> matches[k].confidence]]

\* Lines 285-303 for the window at ev.i.
Scanned(window_data, f) ==
  /\ objs' = f.objs
  /\ index_dirty' = f.index_dirty
  /\ ret' = f.ret
  /\ ev' = [ev EXCEPT
              !.i = @ + ev.step,
              !.positions = Append(@, ev.i),
              !.bars = Append(@, Len(window_data)),
              !.calls = @ + 1,
              !.detections = @ \o Detections(ev.i, ev.window_size,
                                             f.ret.out.matches)]
  /\ UNCHANGED <<config, templates, disk, nextId, dist, other, app>>

ScanWindowData(window_data) ==
  Scanned(window_data,
          find_matches(calc, matcher, index_dirty, templates, objs,
                       normalize_pattern(window_data), ev.min_confidence))

ScanWindow ==
  /\ ev.pc = "scan"
  /\ ev.i < RangeStop(Len(ev.ohlc_data), ev.window_size)
  /\ ScanWindowData(iloc(ev.ohlc_data, ev.i, ev.i + ev.window_size))

ScanReturn ==
  /\ ev.pc = "scan"
  /\ ev.i >= RangeStop(Len(ev.ohlc_data), ev.window_size)
  /\ ev' = Idle
  /\ ret' = [op |-> "backtest_on_data", n |-> Len(ev.ohlc_data),
             window_size |-> ev.window_size, step |-> ev.step,
             positions |-> ev.positions, bars |-> ev.bars,
             calls |-> ev.calls, detections |-> ev.detections]
  /\ UNCHANGED <<config, store, dist, other, app>>

NextScan ==
  \/ Sequential /\ \E p \in CorePatterns : AddPattern(p.label, p.ohlc_data)
  \/ \E n \in ScanBars, w \in ScanWindows, step \in ScanSteps :
       BacktestOnData(n, w, step, DefaultMinConfidence)
  \/ ScanWindow
  \/ ScanReturn

SpecScan == Init /\ [][NextScan]_vars

(***************************************************************************)
(* The engine without external serialization.  SpecThreads: one or two     *)
(* threads call the Evaluator on the same Store; the thread that runs      *)
(* changes between any two steps of a fold loop.  SpecMutate: the handlers *)
(* that mutate the Store run between the steps of an Evaluator call.       *)
(***************************************************************************)
\* The other thread is scheduled.
Switch ==
  /\ other.pc # "absent"
  /\ ev' = other
  /\ other' = ev
  /\ UNCHANGED <<config, store, ret, dist, app>>

\* No Evaluator call is in progress.
Quiet == ev.pc = "idle" /\ other.pc \in {"idle", "absent"}

InitThreads == NewLibrary /\ matcher = DefaultMatcher /\ other \in {Absent, Idle}

NextThreads ==
  \/ Quiet /\ nextId <= MaxShared
       /\ \E p \in CorePatterns : AddPattern(p.label, p.ohlc_data)
  \/ CrossValidate(DefaultMinConfidence, TRUE)
  \/ GetConfusionMatrix(DefaultMinConfidence, TRUE)
  \/ SwapIn
  \/ Query
  \/ SwapBack
  \/ Return
  \/ Switch

SpecThreads == InitThreads /\ [][NextThreads]_vars

NextMutate ==
  \/ \E p \in CorePatterns : AddPattern(p.label, p.ohlc_data)
  \/ AugmentLibrary(TRUE)
  \/ \E id \in templates : DeletePattern(id)
  \/ CrossValidate(DefaultMinConfidence, TRUE)
  \/ SwapIn
  \/ Query
  \/ SwapBack
  \/ Return

SpecMutate == Init /\ [][NextMutate]_vars

(***************************************************************************)
(* The distance engine on its own: every configuration, every pair of      *)
(* signals within the bounds.                                              *)
(***************************************************************************)
SigVals == 0..MaxVal
RECURSIVE SeqsOfLen(_, _)
SeqsOfLen(S, n) ==
  IF n = 0 THEN {<<>>}
  ELSE {Append(s, v) : s \in SeqsOfLen(S, n - 1), v \in S}
Signals == UNION {SeqsOfLen(SigVals, n) : n \in MinSigLen..MaxSigLen}

Variants == {"derivative", "standard", "shape"}
Constraints == {"sakoe_chiba", "adtw", "none", "itakura"}
Configs == [variant : Variants, constraint : Constraints,
            sakoe_chiba_window : {DefaultSakoeChibaWindow},
            amercing_penalty : {DefaultAmercingPenalty}]

InitDist ==
  /\ calc \in Configs
  /\ matcher = DefaultMatcher
  /\ templates = {}
  /\ objs = <<>>
  /\ index_dirty = FALSE
  /\ disk = None
  /\ nextId = 1
  /\ ev = Idle
  /\ ret = [op |-> "__init__"]
  /\ other = Absent
  /\ app = NoApp
  /\ \E q \in Signals, t \in Signals :
       dist = [q |-> q, t |-> t, env |-> None, lb |-> None, d |-> None]

ComputeEnvelopes ==
  /\ dist.env = None
  /\ dist' = [dist EXCEPT !.env = Some(compute_envelopes(calc, dist.t, None))]
  /\ UNCHANGED <<config, store, ev, ret, other, app>>

ComputeLbKeogh ==
  /\ dist.env # None
  /\ dist.lb = None
  /\ dist' = [dist EXCEPT !.lb =
                Some(compute_lb_keogh_sq(dist.q, dist.env[1].upper,
                                         dist.env[1].lower))]
  /\ UNCHANGED <<config, store, ev, ret, other, app>>

ComputeDistance ==
  /\ dist.d = None
  /\ dist' = [dist EXCEPT !.d = Some(compute_distance(calc, dist.q, dist.t))]
  /\ UNCHANGED <<config, store, ev, ret, other, app>>

NextDist == ComputeEnvelopes \/ ComputeLbKeogh \/ ComputeDistance

SpecDist == InitDist /\ [][NextDist]_vars

(***************************************************************************)
(* AppState (app/state.py): two dicts, data for the values json.dumps      *)
(* accepts and _objects for the others.  A value is held with the outcome  *)
(* of json.dumps on it.                                                    *)
(***************************************************************************)
Put(d, key, value) ==
  [k \in (DOMAIN d) \cup {key} |-> IF k = key THEN value ELSE d[k]]
Drop(d, key) == [k \in (DOMAIN d) \ {key} |-> d[k]]

_is_json_serializable(value) == value.json

get(a, key, default) ==
  IF key \in DOMAIN a.data THEN a.data[key]
  ELSE IF key \in DOMAIN a._objects THEN a._objects[key]
  ELSE default

set(a, key, value) ==
  IF _is_json_serializable(value)
  THEN [a EXCEPT !.data = Put(a.data, key, value)]
  ELSE [a EXCEPT !._objects = Put(a._objects, key, value)]

__contains__(a, key) == key \in DOMAIN a.data \/ key \in DOMAIN a._objects

\* __getitem__ of a key that is held (KeyError otherwise).
__getitem__(a, key) ==
  IF key \in DOMAIN a.data THEN a.data[key] ELSE a._objects[key]

\* __delitem__ and pop take the key out of the first storage that holds it.
__delitem__(a, key) ==
  IF key \in DOMAIN a.data THEN [a EXCEPT !.data = Drop(a.data, key)]
  ELSE IF key \in DOMAIN a._objects
    THEN [a EXCEPT !._objects = Drop(a._objects, key)]
  ELSE a

pop(a, key) == __delitem__(a, key)

\* The keys and values of the scan page: the window size (a number), the
\* detections (an empty list or a list of Detection objects), the data (a
\* DataFrame).
Json(v) == [json |-> TRUE, value |-> v]
Object(v) == [json |-> FALSE, value |-> v]
StateKeys == {"scan_detections", "scanner_window_size"}
StateValues == {Json("[]"), Json("50"), Object("[Detection]"), Object("DataFrame")}

Set(key, value) ==
  /\ app' = set(app, key, value)
  /\ ret' = [op |-> "set", key |-> key, value |-> value]
  /\ UNCHANGED <<config, store, ev, dist, other>>

\* del app_state[key]: KeyError when the key is in neither storage.
Del(key) ==
  /\ app' = __delitem__(app, key)
  /\ ret' = IF __contains__(app, key) THEN [op |-> "del", key |-> key]
            ELSE [op |-> "raise", in |-> "__delitem__", key |-> key]
  /\ UNCHANGED <<config, store, ev, dist, other>>

Pop(key) ==
  /\ app' = pop(app, key)
  /\ ret' = [op |-> "pop", key |-> key, value |-> get(app, key, None)]
  /\ UNCHANGED <<config, store, ev, dist, other>>

NextState ==
  \/ \E key \in StateKeys, value \in StateValues : Set(key, value)
  \/ \E key \in StateKeys : Del(key)
  \/ \E key \in StateKeys : Pop(key)

SpecState == Init /\ [][NextState]_vars

(***************************************************************************)
(* The application's pages (utils/app_init.py and the handlers of the      *)
(* label, library and scan pages).  A PatternLibrary object is a key of    *)
(* app.libs, its value the ids of the templates it holds; app.pkl is       *)
(* library.pkl; the matcher and the backtester are held with the library   *)
(* object they were constructed on.                                        *)
(***************************************************************************)
MaxSaved == 2
MaxObjects == 4

Unpickled(pkl) == IF pkl = None THEN {} ELSE pkl[1]

\* Lines 20-46: a new PatternLibrary, loaded from disk, unless the key is
\* there.
initialize_pattern_library(a) ==
  IF __contains__(a, "pattern_library") THEN a
  ELSE set([a EXCEPT !.libs = Put(a.libs, a.next, Unpickled(a.pkl)),
                     !.next = a.next + 1],
           "pattern_library", Object(a.next))

\* Lines 66-80: the matcher and the backtester on the library of the state.
WithScanner(a) ==
  set(set(a, "matcher",
          Object([library |-> __getitem__(a, "pattern_library").value])),
      "backtester",
      Object([library |-> __getitem__(a, "pattern_library").value]))

initialize_scanner_components(a) ==
  IF __contains__(initialize_pattern_library(a), "backtester")
  THEN initialize_pattern_library(a)
  ELSE WithScanner(initialize_pattern_library(a))

CurrentLibrary == __getitem__(app, "pattern_library").value

\* The label, library and analysis pages.
RenderLibraryPage(page) ==
  /\ app' = initialize_pattern_library(app)
  /\ ret' = [op |-> "page", page |-> page]
  /\ UNCHANGED <<config, store, ev, dist, other>>

\* The scan and train pages.
RenderScannerPage(page) ==
  /\ app' = initialize_scanner_components(app)
  /\ ret' = [op |-> "page", page |-> page]
  /\ UNCHANGED <<config, store, ev, dist, other>>

\* label_patterns.py save_and_close: _save_pattern (add_pattern, save), then
\* del app_state['pattern_library'].
SaveAndClose ==
  /\ __contains__(app, "pattern_library")
  /\ app.saved < MaxSaved
  /\ app.next <= MaxObjects
  /\ app' = __delitem__(
               [app EXCEPT !.libs[CurrentLibrary] = @ \cup {app.saved + 1},
                           !.pkl = Some(app.libs[CurrentLibrary]
                                          \cup {app.saved + 1}),
                           !.saved = app.saved + 1],
               "pattern_library")
  /\ ret' = [op |-> "save_and_close", id |-> app.saved + 1]
  /\ UNCHANGED <<config, store, ev, dist, other>>

\* label_patterns.py save_changes: the label of a template is set, the
\* library saved, the key dropped.
SaveChanges ==
  /\ __contains__(app, "pattern_library")
  /\ app.libs[CurrentLibrary] # {}
  /\ app.next <= MaxObjects
  /\ app' = __delitem__([app EXCEPT !.pkl = Some(app.libs[CurrentLibrary])],
                        "pattern_library")
  /\ ret' = [op |-> "save_changes"]
  /\ UNCHANGED <<config, store, ev, dist, other>>

\* view_library.py delete_pattern: del library.templates[id]; save.  The
\* key stays.
DeleteTemplate(id) ==
  /\ __contains__(app, "pattern_library")
  /\ id \in app.libs[CurrentLibrary]
  /\ app' = [app EXCEPT !.libs[CurrentLibrary] = @ \ {id},
                        !.pkl = Some(app.libs[CurrentLibrary] \ {id})]
  /\ ret' = [op |-> "delete_pattern", id |-> id]
  /\ UNCHANGED <<config, store, ev, dist, other>>

\* scan_patterns.py scan_for_patterns: the backtester of the state scans on
\* the library it holds; the detections (none, or some) go to the state.
ScanForPatterns(detections) ==
  /\ __contains__(app, "pattern_library")
  /\ __contains__(app, "backtester")
  /\ app' = set(app, "scan_detections", detections)
  /\ ret' = [op |-> "scan_for_patterns",
             scanned |-> app.libs[__getitem__(app, "backtester").value.library],
             current |-> app.libs[CurrentLibrary]]
  /\ UNCHANGED <<config, store, ev, dist, other>>

NextApp ==
  \/ \E page \in {"label", "library", "analysis"} : RenderLibraryPage(page)
  \/ \E page \in {"scan", "train"} : RenderScannerPage(page)
  \/ SaveAndClose
  \/ SaveChanges
  \/ \E id \in 1..MaxSaved : DeleteTemplate(id)
  \/ \E d \in {Json("[]"), Object("[Detection]")} : ScanForPatterns(d)

SpecApp == Init /\ [][NextApp]_vars

(***************************************************************************)
(* The scorer on its own: every k_nearest list within the bounds, sorted   *)
(* by ascending distance, over templates of every label and quality.       *)
(***************************************************************************)
MaxNearest == 3
ScoreLabels == {LabelA, LabelB}
ScoreQualities == {0, Thousand \div 2, Thousand}
ScoreDistances ==
  <<Rational(0, 1), Rational(1, 20), Rational(1, 10), Rational(1, 1),
    Rational(7, 1)>>

Ascending(n) ==
  {rank \in [1..n -> 1..Len(ScoreDistances)] :
     \A i \in 1..(n - 1) : rank[i] <= rank[i + 1]}

InitScore ==
  /\ calc = DefaultConfig
  /\ matcher = DefaultMatcher
  /\ index_dirty = FALSE
  /\ disk = None
  /\ ev = Idle
  /\ dist = NoDist
  /\ other = Absent
  /\ app = NoApp
  /\ \E n \in 1..MaxNearest :
       \E labels \in [1..n -> ScoreLabels],
          quality \in [1..n -> ScoreQualities], rank \in Ascending(n) :
         /\ templates = 1..n
         /\ objs = [i \in 1..n |->
                      PatternTemplate(i, labels[i], <<>>, <<>>, quality[i])]
         /\ nextId = n + 1
         /\ ret = [op |-> "k_nearest",
                   k_nearest |-> [i \in 1..n |->
                                    [id |-> i,
                                     distance |-> ScoreDistances[rank[i]]]]]

\* scorer.compute_confidence(label, k_nearest, vote_weight, query), with
\* the four signals it combines.
ComputeConfidence(label) ==
  /\ ret.op = "k_nearest"
  /\ ret' = [op |-> "compute_confidence", label |-> label,
             k_nearest |-> ret.k_nearest,
             closeness |-> Closeness(label, ret.k_nearest, objs),
             consensus |-> Consensus(label, ret.k_nearest, objs),
             separation |-> Separation(ret.k_nearest, objs),
             avg_quality |-> AvgQuality(label, ret.k_nearest, objs),
             confidence |->
               compute_confidence(label, ret.k_nearest,
                                  _get_label_weight(label, ret.k_nearest,
                                                    objs),
                                  objs)]
  /\ UNCHANGED <<config, store, ev, dist, other, app>>

NextScore == \E label \in ScoreLabels : ComputeConfidence(label)

SpecScore == InitScore /\ [][NextScore]_vars

\* C1: for every pair of signals, under a configuration whose band is the
\* one the envelopes are built for (sakoe_chiba, the engine's own window
\* fraction), the LB_Keogh value of the query against the template's
\* envelopes is at most the engine's distance between the two.
C1_LowerBound ==
  (calc.constraint = "sakoe_chiba"
     /\ dist.lb # None /\ dist.d # None /\ dist.d[1].finite)
    => LbAtMost(dist.lb[1], dist.d[1])

(***************************************************************************)
(* The Matcher's rebuild and the dirty flag.                               *)
(***************************************************************************)
\* The envelopes of a template as build_index computes them from its own
\* normalized signal.
OwnEnvelopes(t) ==
  LET e == compute_envelopes(calc, t.normalized, None)
  IN <<Some(e.upper), Some(e.lower)>>

\* C2: after a find_matches that was called with index_dirty true, every
\* envelope pair the prune stage read is the one computed from the
\* normalized signal of the template it belongs to, and index_dirty is false.
C2_RebuildBeforePrune ==
  (ret.op = "find_matches" /\ ret.was_dirty)
    => /\ index_dirty = FALSE
       /\ \A i \in DOMAIN ret.reads : ret.reads[i] = OwnEnvelopes(objs[i])

\* A dirty call with pruning enabled that read the envelopes of two
\* templates.
C2_Witness ==
  /\ ret.op = "find_matches"
  /\ ret.was_dirty
  /\ matcher.use_lb_keogh
  /\ Cardinality(DOMAIN ret.reads) >= 2
  /\ ret.out.matches # <<>>

\* C3: after add_pattern, augment_library and the deletion of a template by
\* id, index_dirty is true.
C3_MutationMarksDirty ==
  ret.op \in {"add_pattern", "augment_library", "delete_pattern"}
    => index_dirty = TRUE

\* C4: index_dirty goes from true to false only in a build_index step (the
\* library's own or the one find_matches starts with), which leaves every
\* template of the mapping with the envelopes of its own normalized signal
\* and the mapping as it was.
C4_OnlyRebuildClears ==
  [][(index_dirty /\ ~index_dirty')
       => /\ ret'.op \in {"build_index", "find_matches"}
          /\ templates' = templates
          /\ \A i \in templates' : EnvelopeOf(objs'[i]) = OwnEnvelopes(objs'[i])]_vars

\* The flag just cleared by the rebuild of a find_matches over two templates.
C4_Witness ==
  /\ ret.op = "find_matches"
  /\ ret.was_dirty
  /\ ~index_dirty
  /\ Cardinality(templates) >= 2
  /\ disk # None
  /\ \E i \in templates : EnvelopeOf(disk[1].objs[i]) # EnvelopeOf(objs[i])

\* C5: after load, index_dirty is true, whether or not library.pkl exists.
C5_LoadMarksDirty == ret.op = "load" => index_dirty = TRUE

(***************************************************************************)
(* The Evaluator's folds.                                                  *)
(***************************************************************************)
\* The templates of the mapping at the call that may be evaluated.
EligibleAtEntry ==
  {i \in ev.entry : ~(ev.exclude_augmented /\ objs[i].is_augmented)}

\* C6: at the held-out query of a fold, and until the fold is swapped back,
\* the mapping is the eligible templates of the call but the held-out one:
\* the held-out template is not in it and, with exclude_augmented, no
\* augmented template is.
C6_TrainTestIsolation ==
  (ev.pc \in {"query", "swap_back"})
    => LET held == ev.templates[ev.fold]
       IN /\ held \in EligibleAtEntry
          /\ templates = EligibleAtEntry \ {held}
          /\ held \notin templates
          /\ ev.exclude_augmented
               => \A i \in templates : ~objs[i].is_augmented
          /\ ev.pc = "swap_back"
               => /\ ret.op = "find_matches"
                  /\ ret.query = objs[held].normalized
                  /\ DOMAIN ret.reads \subseteq EligibleAtEntry \ {held}

\* A held-out query has run with exclude_augmented while the mirror of the
\* held-out template was in the library.
C6_Witness ==
  /\ ev.pc = "swap_back"
  /\ ev.exclude_augmented
  /\ templates # {}
  /\ \E i \in ev.entry :
       /\ objs[i].is_augmented
       /\ objs[i].parent_id = Some(ev.templates[ev.fold])

Returned ==
  ret.op \in {"cross_validate", "get_confusion_matrix",
              "test_confidence_thresholds"}

InEvaluator == ev.pc # "idle" \/ ev'.pc # "idle"

\* C7: when an Evaluator call returns, the mapping holds the ids it held at
\* the call; and no step of the call writes the storage path or changes the
\* label, signal or augmentation fields of a template.
C7_MappingRestored ==
  /\ [](Returned => templates = ret.entry)
  /\ [][InEvaluator
          => /\ disk' = disk
             /\ \A i \in (DOMAIN objs) \cap (DOMAIN objs') :
                  /\ objs'[i].label = objs[i].label
                  /\ objs'[i].normalized = objs[i].normalized
                  /\ objs'[i].is_augmented = objs[i].is_augmented
                  /\ objs'[i].parent_id = objs[i].parent_id]_vars

\* A cross_validate that ran its folds has returned, on a library that
\* holds an augmented template it did not evaluate.
C7_Witness ==
  /\ ret.op = "cross_validate"
  /\ ~ret.error
  /\ ret.template_count >= 2
  /\ Cardinality(templates) > ret.template_count
  /\ \E i \in templates : objs[i].is_augmented

(***************************************************************************)
(* What find_matches returns.                                              *)
(***************************************************************************)
\* The labels of k_nearest.
NearestLabels(out) == {objs[out.k_nearest[i].id].label : i \in 1..Len(out.k_nearest)}

ConfidenceOf(label, out) ==
  compute_confidence(label, out.k_nearest,
                     _get_label_weight(label, out.k_nearest, objs), objs)

\* C8: the list find_matches returns is in non-increasing order of
\* confidence, every confidence is at least min_confidence, the labels are
\* pairwise distinct, and every label of k_nearest whose confidence is at
\* least min_confidence is in it.
C8_MatchesSortedAndComplete ==
  ret.op = "find_matches"
    => LET m == ret.out.matches
       IN /\ \A i, j \in 1..Len(m) :
               i < j => /\ m[i].confidence >= m[j].confidence
                        /\ m[i].label # m[j].label
          /\ \A i \in 1..Len(m) :
               /\ m[i].confidence >= ret.min_confidence
               /\ m[i].label \in NearestLabels(ret.out)
               /\ m[i].confidence = ConfidenceOf(m[i].label, ret.out)
          /\ \A l \in NearestLabels(ret.out) :
               ConfidenceOf(l, ret.out) >= ret.min_confidence
                 => \E i \in 1..Len(m) : m[i].label = l

\* Three neighbours with two labels; at the default threshold one label is
\* returned and the other is dropped.
C8_Witness ==
  /\ ret.op = "find_matches"
  /\ ret.min_confidence = DefaultMinConfidence
  /\ Len(ret.out.k_nearest) = 3
  /\ Cardinality(NearestLabels(ret.out)) = 2
  /\ Len(ret.out.matches) = 1

\* C9: on an empty Store, or when the exact distance of every candidate is
\* non-finite, find_matches returns the empty list and the scorer is not
\* called.
C9_EmptyResult ==
  (ret.op = "find_matches"
     /\ \/ templates = {}
        \/ \A i \in 1..Len(ret.out.candidates) :
             ~compute_distance(calc, ret.query,
                               objs[ret.out.candidates[i]].normalized).finite)
    => /\ ret.out.matches = <<>>
       /\ ret.out.scorer_calls = 0

\* A query with a NaN in it against a Store of two templates.
C9_Witness ==
  /\ ret.op = "find_matches"
  /\ HasNaN(ret.query)
  /\ Len(ret.out.candidates) >= 2
  /\ ret.out.matches = <<>>

(***************************************************************************)
(* cross_validate on too few templates.                                    *)
(***************************************************************************)
EligibleCount(x) ==
  Cardinality({i \in templates : ~(x /\ objs[i].is_augmented)})

\* C10: a cross_validate called with fewer than 2 eligible templates returns
\* the error result with the eligible count and leaves the mapping, the
\* templates and index_dirty as they were, without a fold; a cross_validate
\* that starts its folds has at least 2 eligible templates.
C10_TooFewTemplates ==
  [][(ev.pc = "idle" /\ ret'.op = "cross_validate")
       => /\ ret'.error
          /\ ret'.template_count = EligibleCount(ret'.exclude_augmented)
          /\ ret'.template_count < 2
          /\ ev'.pc = "idle"
          /\ templates' = templates
          /\ objs' = objs
          /\ index_dirty' = index_dirty
          /\ disk' = disk]_vars
  /\ [][(ev.pc = "idle" /\ ev'.pc # "idle" /\ ev'.mode = "cross_validate")
          => EligibleCount(ev'.exclude_augmented) >= 2]_vars

\* The error result for one eligible template: an original and its mirror,
\* with exclude_augmented.
C10_Witness ==
  /\ ret.op = "cross_validate"
  /\ ret.error
  /\ ret.exclude_augmented
  /\ ret.template_count = 1
  /\ Cardinality(templates) = 2

(***************************************************************************)
(* The Evaluator's predictions and its counts.                             *)
(***************************************************************************)
Last(s) == s[Len(s)]

\* The sample was predicted NO_MATCH: lines 98-100 give it confidence 0.0,
\* and a match never has that confidence (its label is in k_nearest, so
\* its consensus term is positive).
PredictedNoMatch(prediction) == prediction[3] = 0

\* C11: in cross_validate the Matcher is queried with threshold 0; the
\* predicted label of the held-out sample is the label of the first match
\* returned if its confidence is at least min_confidence, else NO_MATCH;
\* in the result no sample predicted NO_MATCH is among the correct ones,
\* and matched counts the samples not predicted NO_MATCH.
C11_ThresholdAfterQuery ==
  /\ (ev.pc = "swap_back" /\ ev.mode = "cross_validate")
       => /\ ret.op = "find_matches"
          /\ ret.min_confidence = 0
          /\ Last(ev.y_pred) =
               (IF ret.out.matches # <<>>
                     /\ ret.out.matches[1].confidence >= ev.min_confidence
                THEN ret.out.matches[1].label ELSE NO_MATCH)
  /\ (ret.op = "cross_validate" /\ ~ret.error)
       => LET p == ret.metrics.predictions
          IN /\ ret.metrics.correct =
                  Cardinality({i \in 1..Len(p) :
                                 p[i][1] = p[i][2] /\ ~PredictedNoMatch(p[i])})
             /\ ret.metrics.matched =
                  Cardinality({i \in 1..Len(p) : ~PredictedNoMatch(p[i])})

(***************************************************************************)
(* Augmentation.                                                           *)
(***************************************************************************)
\* The fields of a template other than its envelopes.
Fields(t) ==
  <<t.id, t.label, t.raw_data, t.normalized, t.bars_count, t.quality_score,
    t.is_augmented, t.augmentation_type, t.parent_id>>

\* C12: an augment_library step removes no template from the mapping and
\* changes no field of a template that was in it; every template it adds is
\* augmented, its parent_id is the id of a non-augmented template of the
\* mapping, and its normalized signal is the negation of that parent's.
C12_AugmentAdditive ==
  [][ret'.op = "augment_library"
       => /\ templates \subseteq templates'
          /\ \A i \in templates : Fields(objs'[i]) = Fields(objs[i])
          /\ templates' \ templates = ret'.added
          /\ \A i \in templates' \ templates :
               /\ objs'[i].is_augmented
               /\ objs'[i].parent_id # None
               /\ LET parent == objs'[i].parent_id[1]
                  IN /\ parent \in templates
                     /\ ~objs[parent].is_augmented
                     /\ objs'[i].normalized = Negate(objs[parent].normalized)]_vars

\* An augmentation that added a mirror to a mapping that already held one,
\* with a signal that differs from its negation.
C12_Witness ==
  /\ ret.op = "augment_library"
  /\ ret.added # {}
  /\ \E i \in templates \ ret.added : objs[i].is_augmented
  /\ \A i \in ret.added : objs[i].normalized # Negate(objs[i].normalized)

\* C13: no augmented template is the parent of a template: the parent_id of
\* every augmented template is set, is the id of a template created before
\* it and, while that template exists, of a non-augmented one; and
\* is_augmented of a template never changes.
C13_NoMirrorOfMirror ==
  /\ [](\A i \in DOMAIN objs :
          objs[i].is_augmented
            => /\ objs[i].parent_id # None
               /\ objs[i].parent_id[1] < i
               /\ \A j \in DOMAIN objs :
                    objs[i].parent_id = Some(j) => ~objs[j].is_augmented)
  /\ [][\A i \in (DOMAIN objs) \cap (DOMAIN objs') :
          objs'[i].is_augmented = objs[i].is_augmented]_vars

\* Two augment_library calls in a row, the second on a mapping that holds a
\* mirror and its parent.
C13_Witness ==
  /\ ret.op = "augment_library"
  /\ ret.added # {}
  /\ \E i \in templates \ ret.added :
       /\ objs[i].is_augmented
       /\ objs[i].parent_id[1] \in templates
  /\ Cardinality({i \in templates : objs[i].is_augmented}) >= 2

AllAdded == 1..(nextId - 1)

\* C15: with one thread (every execution serial) each held-out query runs
\* on the training subset of its own fold and, when no call is in progress,
\* the mapping is the original one; with two threads whose fold steps
\* interleave, a state that breaks this is reached (C15_Witness).
C15_UnsafeOnlyWhenInterleaved ==
  /\ [][(other.pc = "absent" /\ ev.pc = "query" /\ ev'.pc = "swap_back")
          => templates = TrainingSet(ev.templates, ev.fold)]_vars
  /\ []((other.pc = "absent" /\ ev.pc = "idle") => templates = AllAdded)

\* Two threads, both Evaluator calls have returned, and the mapping is not
\* the original one.
C15_Witness ==
  /\ other.pc = "idle"
  /\ ev.pc = "idle"
  /\ Returned
  /\ ~ret.error
  /\ templates # AllAdded

\* C16: a template added between a fold's swap-in and its swap-back goes
\* into the temporary mapping and not into the original one, and the
\* swap-back sets the mapping to the original one, without it.
C16_MutationDiscarded ==
  /\ [][(ev.pc \in {"query", "swap_back"} /\ ret'.op = "add_pattern")
          => /\ templates' = templates \cup {ret'.id}
             /\ ret'.id \notin ev.original_templates
             /\ ev' = ev]_vars
  /\ [][(ev.pc = "swap_back" /\ ev'.pc # "swap_back")
          => templates' = ev.original_templates]_vars

\* A cross_validate has returned; a template that was added and saved
\* during the run is not in the Store.
C16_Witness ==
  /\ ev.pc = "idle"
  /\ ret.op = "cross_validate"
  /\ ~ret.error
  /\ disk # None
  /\ \E i \in disk[1].keys : i \notin templates /\ i \notin ret.entry

(***************************************************************************)
(* The sliding-window scan.                                                *)
(***************************************************************************)
\* C17: a backtest_on_data over n bars with window_size w and step s has
\* evaluated the windows that start at 0, s, 2s, ... up to n - w and no
\* other (none when n < w), each of w bars that lie inside the series, with
\* one find_matches call per window; for n = 100, w = 50, s = 50 these are
\* the two windows at 0 and 50.
C17_ScanWindows ==
  ret.op = "backtest_on_data"
    => LET count == IF ret.n < ret.window_size THEN 0
                    ELSE (ret.n - ret.window_size) \div ret.step + 1
       IN /\ Len(ret.positions) = count
          /\ \A k \in 1..count :
               /\ ret.positions[k] = (k - 1) * ret.step
               /\ ret.positions[k] + ret.window_size <= ret.n
               /\ ret.bars[k] = ret.window_size
          /\ ret.calls = count
          /\ (ret.n = ScenarioBars /\ ret.window_size = ScenarioWindow
                /\ ret.step = ScenarioStep)
               => ret.positions = <<0, ScenarioWindow>>

\* The scan of 100 bars with window_size 50 and step 50 over a library of
\* two templates has returned.
C17_Witness ==
  /\ ret.op = "backtest_on_data"
  /\ ret.n = ScenarioBars
  /\ ret.window_size = ScenarioWindow
  /\ ret.step = ScenarioStep
  /\ ret.calls = 2
  /\ Cardinality(templates) >= 2

(***************************************************************************)
(* Scenarios.                                                              *)
(***************************************************************************)
\* d1 < d2, for two finite distances.
Nearer(d1, d2) == d1.num * d2.den < d2.num * d1.den

\* The library holds three templates labelled A, A, B in this order, the
\* second A signal nearer to the first than the B signal is, k = 2, and
\* the last call is a find_matches of the first A signal.
ScenarioAAB ==
  /\ ret.op = "find_matches"
  /\ matcher.k = ScenarioK
  /\ Cardinality(templates) = 3
  /\ LET keys == InOrder(templates)
         q == objs[keys[1]].normalized
         d2 == compute_distance(calc, q, objs[keys[2]].normalized)
         d3 == compute_distance(calc, q, objs[keys[3]].normalized)
     IN /\ objs[keys[1]].label = LabelA
        /\ objs[keys[2]].label = LabelA
        /\ objs[keys[3]].label = LabelB
        /\ ret.query = q
        /\ d2.finite /\ d3.finite /\ Nearer(d2, d3)

\* C18: in the scenario A, A, B with k = 2, find_matches of the first A
\* signal returns one match, its label is A, and its confidence is above
\* the confidence the scorer gives label B on the same k_nearest.
C18_ScenarioAAB ==
  ScenarioAAB
    => /\ Len(ret.out.matches) = 1
       /\ ret.out.matches[1].label = LabelA
       /\ ret.out.matches[1].confidence > ConfidenceOf(LabelB, ret.out)

\* The scenario without pruning: both A templates are the k nearest.
C18_Witness ==
  /\ ScenarioAAB
  /\ ~matcher.use_lb_keogh
  /\ Len(ret.out.k_nearest) = ScenarioK
  /\ Len(ret.out.matches) = 1
  /\ objs[1].normalized # objs[2].normalized

\* accuracy = correct / len(y_true), in thousandths.
Accuracy(metrics) == (metrics.correct * Thousand) \div metrics.total_samples

\* The eligible templates of the call that returned, in the order of the
\* mapping.
EligibleReturned == Eligible(ret.entry, objs, ret.exclude_augmented)

\* C19: a cross_validate over exactly 2 eligible templates with distinct
\* labels reports Leave-One-Out, has held each of the two out once (two
\* samples, one per template, in order) and an accuracy of 0, 0.5 or 1.
C19_TwoTemplates ==
  (ret.op = "cross_validate" /\ ~ret.error
     /\ Len(EligibleReturned) = 2
     /\ objs[EligibleReturned[1]].label # objs[EligibleReturned[2]].label)
    => /\ ret.cv_strategy = "Leave-One-Out"
       /\ ret.template_count = 2
       /\ ret.metrics.total_samples = 2
       /\ \A i \in 1..2 :
            ret.metrics.predictions[i][1] = objs[EligibleReturned[i]].label
       /\ Accuracy(ret.metrics) \in {0, Thousand \div 2, Thousand}

\* Such a call has returned on a library that also holds a mirror, which
\* was not evaluated.
C19_Witness ==
  /\ ret.op = "cross_validate"
  /\ ~ret.error
  /\ ret.exclude_augmented
  /\ Cardinality(templates) = 3
  /\ Len(EligibleReturned) = 2
  /\ objs[EligibleReturned[1]].label # objs[EligibleReturned[2]].label
  /\ ret.metrics.total_samples = 2

\* C20: with the default weights, for every non-empty k_nearest sorted by
\* ascending non-negative distance over templates of quality in [0, 1], and
\* every label present in it, compute_confidence returns a value in [0, 1]
\* and each of closeness, consensus, separation and quality is in [0, 1].
InUnit(x) == 0 <= x /\ x <= Thousand
Present(label, k_nearest, T) ==
  \E i \in 1..Len(k_nearest) : T[k_nearest[i].id].label = label
C20_ConfidenceInUnit ==
  (ret.op = "compute_confidence" /\ Present(ret.label, ret.k_nearest, objs))
    => /\ InUnit(ret.closeness)
       /\ InUnit(ret.consensus)
       /\ InUnit(ret.separation)
       /\ InUnit(ret.avg_quality)
       /\ 0 <= ret.confidence
       /\ ret.confidence <= WeightUnit * Thousand

\* The nearest template of the label is closer than 0.1 (closeness is at
\* its cap), a second label with less weight is among the neighbours.
C20_Witness ==
  /\ ret.op = "compute_confidence"
  /\ Present(ret.label, ret.k_nearest, objs)
  /\ Len(LabelsOf(ret.k_nearest, objs)) = 2
  /\ Len(ret.k_nearest) > 2
  /\ ret.closeness = Thousand
  /\ ret.separation > 0
  /\ ret.separation < Thousand
  /\ ret.avg_quality = Thousand
  /\ ret.confidence < WeightUnit * Thousand

\* C21: compute_distance raises for no (variant, constraint) pair, and a
\* pair outside {derivative, standard} x {sakoe_chiba, adtw, none} is
\* computed unconstrained: derivative DTW when the variant is "derivative",
\* standard DTW otherwise.
Recognized(c) ==
  /\ c.variant \in {"derivative", "standard"}
  /\ c.constraint \in {"sakoe_chiba", "adtw", "none"}
Unconstrained(c, query, template) ==
  IF c.variant = "derivative"
  THEN Normalized(ddtw_distance16(query, template, None),
                  SlopeScale * SlopeScale, Len(query) + Len(template))
  ELSE Normalized(dtw_distance(query, template, None), 1,
                  Len(query) + Len(template))
C21_FallbackUnconstrained ==
  (dist.d # None /\ ~Recognized(calc))
    => dist.d[1] = Unconstrained(calc, dist.q, dist.t)

\* C22: with pruning enabled and N >= 1 templates in the Store, the
\* candidates are max(1, floor(N * 0.2)) distinct templates of the Store and
\* no template left out has a smaller lb_keogh value than one kept (a
\* template without envelopes counting as 0); with pruning disabled or an
\* empty Store the candidates are all the templates of the Store.
Bound(query, t) == LbOf(calc, query, t)
CandidateSet(out) == {out.candidates[i] : i \in 1..Len(out.candidates)}
C22_PruneStage ==
  ret.op = "find_matches"
    => LET kept == CandidateSet(ret.out)
           N == Cardinality(templates)
       IN /\ kept \subseteq templates
          /\ Cardinality(kept) = Len(ret.out.candidates)
          /\ IF matcher.use_lb_keogh /\ N >= 1
             THEN /\ Len(ret.out.candidates) = Max(1, (N * 2) \div 10)
                  /\ \A i \in kept : \A j \in templates \ kept :
                       Bound(ret.query, objs[i]) <= Bound(ret.query, objs[j])
             ELSE kept = templates

\* Ten templates, pruning enabled: two candidates are kept, and a template
\* left out has a larger bound than one kept.
C22_Witness ==
  /\ ret.op = "find_matches"
  /\ matcher.use_lb_keogh
  /\ Cardinality(templates) >= 10
  /\ Len(ret.out.candidates) = 2
  /\ \E i \in CandidateSet(ret.out) :
       \E j \in templates \ CandidateSet(ret.out) :
         Bound(ret.query, objs[i]) < Bound(ret.query, objs[j])

\* C23: k_nearest holds min(k, number of candidates with a finite exact
\* distance) entries, each a candidate with its exact distance, in ascending
\* order of that distance, and no candidate left out has a finite exact
\* distance smaller than that of an entry.
Exact(query, id) == compute_distance(calc, query, objs[id].normalized)
Closer(a, b) == a.num * b.den < b.num * a.den
FiniteCandidates(query, out) ==
  {id \in CandidateSet(out) : Exact(query, id).finite}
NearestIds(out) == {out.k_nearest[i].id : i \in 1..Len(out.k_nearest)}
C23_RankStage ==
  ret.op = "find_matches"
    => LET kn == ret.out.k_nearest
           finite == FiniteCandidates(ret.query, ret.out)
       IN /\ Len(kn) = Min(matcher.k, Cardinality(finite))
          /\ Cardinality(NearestIds(ret.out)) = Len(kn)
          /\ NearestIds(ret.out) \subseteq finite
          /\ \A i \in 1..Len(kn) : kn[i].distance = Exact(ret.query, kn[i].id)
          /\ \A i, j \in 1..Len(kn) :
               i < j => ~Closer(kn[j].distance, kn[i].distance)
          /\ \A j \in finite \ NearestIds(ret.out) : \A i \in 1..Len(kn) :
               ~Closer(Exact(ret.query, j), kn[i].distance)

\* Three candidates with finite distances and k = 2: the two nearest are
\* kept, the second strictly farther than the first, and the one left out
\* was inserted before one that is kept.
C23_Witness ==
  /\ ret.op = "find_matches"
  /\ matcher.k = ScenarioK
  /\ Cardinality(FiniteCandidates(ret.query, ret.out)) = 3
  /\ Len(ret.out.k_nearest) = 2
  /\ Closer(ret.out.k_nearest[1].distance, ret.out.k_nearest[2].distance)
  /\ \E j \in CandidateSet(ret.out) \ NearestIds(ret.out) :
       \E i \in NearestIds(ret.out) : j < i

\* C24: a mirror's label is its parent's with every "bullish" turned into
\* "bearish" when the parent's label contains "bullish" in any case (or
\* every "bearish" into "bullish" when it contains that), the other pieces
\* unchanged; else the parent's label as it is when it contains "_inverted";
\* else the parent's label with "_inverted" appended.
Swapped(label, mirrored, old, new) ==
  /\ Len(mirrored) = Len(label)
  /\ \A i \in 1..Len(label) :
       IF Lower(label[i]) = old THEN Lower(mirrored[i]) = new
       ELSE mirrored[i] = label[i]
Relabelled(label, mirrored) ==
  IF InLower("bullish", label) THEN Swapped(label, mirrored, "bullish", "bearish")
  ELSE IF InLower("bearish", label)
    THEN Swapped(label, mirrored, "bearish", "bullish")
  ELSE IF InLower("_inverted", label) THEN mirrored = label
  ELSE mirrored = Append(label, "_inverted")
C24_MirrorLabel ==
  \A id \in templates :
    (objs[id].is_augmented /\ objs[id].parent_id[1] \in templates)
      => Relabelled(objs[objs[id].parent_id[1]].label, objs[id].label)

\* C25: whenever index_dirty is false, every template of the visible
\* mapping has an upper and a lower envelope, each as long as its normalized
\* signal; the prune stage never reads a missing envelope.
Indexed(t) ==
  /\ t.upper_envelope # None
  /\ t.lower_envelope # None
  /\ Len(t.upper_envelope[1]) = Len(t.normalized)
  /\ Len(t.lower_envelope[1]) = Len(t.normalized)
C25_CleanMeansIndexed ==
  /\ ~index_dirty => \A id \in templates : Indexed(objs[id])
  /\ ret.op = "find_matches"
       => \A id \in DOMAIN ret.reads :
            ret.reads[id][1] # None /\ ret.reads[id][2] # None

\* In a fold, after the held-out query: the flag is false, the training
\* subset is indexed, and the held-out template, not in the visible
\* mapping, has no envelopes.
C25_Witness ==
  /\ ev.pc = "swap_back"
  /\ ~index_dirty
  /\ templates # {}
  /\ ev.templates[ev.fold] \notin templates
  /\ ~Indexed(objs[ev.templates[ev.fold]])

\* C26: when the held-out query of a fold of cross_validate or
\* get_confusion_matrix raises, library.templates is the mapping the call
\* was entered with by the time the exception reaches the caller, and no
\* later save writes anything less.
RaisedInFold ==
  ret.op = "raise" /\ ret.in \in {"cross_validate", "get_confusion_matrix"}
C26_RestoredOnFailure == RaisedInFold => templates = ret.entry

\* C27: augment_library is idempotent: however often it is called, a
\* non-augmented template has at most one mirrored sibling in the Store.
Mirrors(id) ==
  {m \in templates : objs[m].is_augmented /\ objs[m].parent_id = Some(id)}
C27_AugmentIdempotent ==
  \A id \in templates : Cardinality(Mirrors(id)) <= 1

\* C28: pruning does not change the nearest neighbour: on the same Store
\* and query, k_nearest with pruning enabled is empty exactly when it is
\* empty with pruning disabled, and its first entry has the distance of
\* the first entry found with pruning disabled.
NearestWith(use_lb_keogh) ==
  MatchPipeline(calc, [matcher EXCEPT !.use_lb_keogh = use_lb_keogh],
                InOrder(templates), objs, ret.query,
                ret.min_confidence).k_nearest
SameNearest(pruned, full) ==
  /\ (pruned = <<>>) = (full = <<>>)
  /\ pruned # <<>> => pruned[1].distance = full[1].distance
C28_PruningKeepsNearest ==
  ret.op = "find_matches" => SameNearest(NearestWith(TRUE), NearestWith(FALSE))

\* C30: AppState behaves as one dictionary: after set(k, v) the key is in
\* the state and get(k) and state[k] return v; after del state[k] or pop(k)
\* the key is not in the state; no key is held in both storages.
C30_SingleDictionary ==
  /\ ret.op = "set"
       => /\ __contains__(app, ret.key)
          /\ get(app, ret.key, None) = ret.value
          /\ __getitem__(app, ret.key) = ret.value
  /\ ret.op \in {"del", "pop"} => ~__contains__(app, ret.key)
  /\ (DOMAIN app.data) \cap (DOMAIN app._objects) = {}

\* C29: whenever the application state holds a library together with a
\* matcher and a backtester, these two were constructed on that library
\* object, and a scan runs on the templates of the library of the state.
LibraryOf(key) == __getitem__(app, key).value.library
C29_SameLibraryObject ==
  /\ (__contains__(app, "pattern_library") /\ __contains__(app, "backtester"))
       => /\ LibraryOf("matcher") = CurrentLibrary
          /\ LibraryOf("backtester") = CurrentLibrary
  /\ ret.op = "scan_for_patterns" => ret.scanned = ret.current

=============================================================================
